---- MODULE Spec2Model ----
(***************************************************************************)
(* A model of lcapy's typed expression classes (lcapy/core.py): the class  *)
(* hierarchy, the constructors with their domain checks and assumption     *)
(* dictionaries, the lazy assumption inference, and the arithmetic and     *)
(* comparison operators with their compatibility rules.                    *)
(*                                                                         *)
(* A payload (a sympy expression) is abstracted to: whether it is 0, the   *)
(* set of domain symbols it contains, and the shape of the time signal it  *)
(* describes.  An assumption dictionary is a function from a subset of the *)
(* keys to "True" / "False" / "None" (and a frequency name for 'omega').   *)
(* Dictionaries live in a heap so that two values can share one, as they   *)
(* do in the code when a value is built from another one without keyword   *)
(* arguments.                                                              *)
(***************************************************************************)
EXTENDS Integers, Sequences, FiniteSets, TLC

\* Number of distinct explicit phasor frequencies used by the inputs.
MaxOmega == 2

(***************************************************************************)
(* Class hierarchy                                                         *)
(***************************************************************************)
SClasses == {"Zs", "Ys", "Vs", "Is", "Hs"}
TClasses == {"Yt", "Zt", "Vt", "It", "Ht"}
FClasses == {"Yf", "Zf", "Hf", "Vf", "If"}
WClasses == {"Yomega", "Zomega", "Vomega", "Iomega", "Homega"}
NClasses == {"Vn", "In"}
PClasses == {"Vphasor", "Iphasor"}
CClasses == {"Vconst", "Iconst"}
BaseClasses == {"Expr", "sfwExpr", "sExpr", "fExpr", "omegaExpr", "tExpr", "cExpr", "Phasor", "noiseExpr"}

Classes ==
    BaseClasses \cup SClasses \cup TClasses \cup FClasses \cup WClasses
        \cup NClasses \cup PClasses \cup CClasses

\* The base class named in each class statement (Expr's own base is object;
\* it is given as itself so that the chain below stops there).
ParentOf ==
    [c \in Classes |->
       CASE c \in SClasses -> "sExpr"
         [] c \in TClasses -> "tExpr"
         [] c \in FClasses -> "fExpr"
         [] c \in WClasses -> "omegaExpr"
         [] c \in NClasses -> "noiseExpr"
         [] c \in PClasses -> "Phasor"
         [] c \in CClasses -> "cExpr"
         [] c = "noiseExpr" -> "omegaExpr"
         [] c \in {"sExpr", "fExpr", "omegaExpr"} -> "sfwExpr"
         [] OTHER -> "Expr"]

\* The classes an instance of c is an instance of (the longest chain is
\* Vn -> noiseExpr -> omegaExpr -> sfwExpr -> Expr).
MroOf ==
    [c \in Classes |->
       {c, ParentOf[c], ParentOf[ParentOf[c]], ParentOf[ParentOf[ParentOf[c]]],
        ParentOf[ParentOf[ParentOf[ParentOf[c]]]]}]

\* issubclass(c, d)
IsSubclass(c, d) ==
    c \in Classes /\ d \in MroOf[c]

\* isinstance(v, Expr): plain numbers and sympy payloads are not.
IsExpr(v) ==
    v.cls \in Classes

(***************************************************************************)
(* Payloads                                                                *)
(***************************************************************************)
\* The names of the four domain symbols ssym, tsym, fsym, omegasym.
Syms == {"s", "t", "f", "omega"}

\* A payload: zero (expr == 0), fv (the domain symbols expr contains) and
\* sig, what lcapy.acdc reports for it as a function of t: "zero" and "dc"
\* do not depend on t, "ac" is a single sinusoid, "causal" is 0 for t < 0.
Payload(z, fv, sig) ==
    [zero |-> z, fv |-> fv, sig |-> sig]

PZero == Payload(TRUE, {}, "zero")
POne == Payload(FALSE, {}, "dc")

PVar(x, sig) ==
    Payload(FALSE, {x}, sig)

\* The payloads values are constructed from.
PayloadInputs ==
    {PZero, POne} \cup {PVar(x, "dc") : x \in Syms \ {"t"}}
        \cup {PVar("t", g) : g \in {"ac", "causal", "other"}}

(***************************************************************************)
(* Assumption dictionaries                                                 *)
(***************************************************************************)
EmptyDict == [k \in {} |-> "None"]

\* d[k] = v
Put(d, k, v) ==
    [x \in (DOMAIN d) \cup {k} |-> IF x = k THEN v ELSE d[x]]

Has(d, k) ==
    k \in DOMAIN d

\* dictionary d asserts key k.
Asserts(d, k) ==
    Has(d, k) /\ d[k] = "True"

OmegaNames == {ToString(i) : i \in 1..MaxOmega}

\* Keyword arguments given to constructors.
KwInputs ==
    {EmptyDict, Put(EmptyDict, "dc", "True"), Put(EmptyDict, "ac", "True"),
     Put(EmptyDict, "causal", "True")}

KwOmega ==
    {EmptyDict} \cup {Put(EmptyDict, "omega", w) : w \in OmegaNames}

(***************************************************************************)
(* Values and the heap of assumption dictionaries                          *)
(***************************************************************************)
\* An instance: its class, its payload (expr), the heap slot of its
\* assumptions dictionary and its 'part' attribute ("none" when unset).
Val(cls, p, aid, part) ==
    [cls |-> cls, p |-> p, aid |-> aid, part |-> part]

\* A plain Python int, a bare sympy expression, and an unset register.
Number(p) == Val("int", p, 0, "none")
Raw(p) == Val("sympy", p, 0, "none")
NoVal == Val("nil", PZero, 0, "none")

Slots == 1..3
Regs == {"a", "b", "r"}

\* Phasor.__init__, Vn.__init__, In.__init__: assumptions['positive'] = True
KwPositive(cls, kw) ==
    IF IsSubclass(cls, "Vn") \/ IsSubclass(cls, "In") \/ IsSubclass(cls, "Phasor")
    THEN Put(kw, "positive", "True") ELSE kw

\* fExpr, omegaExpr, tExpr, cExpr __init__: assumptions['real'] = True
KwReal(cls, kw) ==
    IF IsSubclass(cls, "fExpr") \/ IsSubclass(cls, "omegaExpr")
          \/ IsSubclass(cls, "tExpr") \/ IsSubclass(cls, "cExpr")
    THEN Put(kw, "real", "True") ELSE kw

\* cExpr.__init__: positive unless the caller says otherwise.
KwConstant(cls, kw) ==
    IF IsSubclass(cls, "cExpr") /\ ~Has(kw, "positive")
    THEN Put(kw, "positive", "True") ELSE kw

\* The keyword arguments after the subclass constructors have run, before
\* Expr.__init__ sees them.
ImplicitKw(cls, kw) ==
    KwConstant(cls, KwReal(cls, KwPositive(cls, kw)))

\* Forbidden with the check of sExpr left out.
ForbiddenWithoutSExpr(cls) ==
    IF IsSubclass(cls, "fExpr") THEN {"s", "t"}
    ELSE IF IsSubclass(cls, "omegaExpr") THEN {"s", "t"}
    ELSE IF IsSubclass(cls, "tExpr") THEN {"s"}
    ELSE IF IsSubclass(cls, "cExpr") THEN {"s", "omega", "t", "f"}
    ELSE {}

\* The symbols whose presence makes the constructor of cls raise.
Forbidden(cls) ==
    IF IsSubclass(cls, "sExpr") THEN {"t"}
    ELSE IF IsSubclass(cls, "fExpr") THEN {"s", "t"}
    ELSE IF IsSubclass(cls, "omegaExpr") THEN {"s", "t"}
    ELSE IF IsSubclass(cls, "tExpr") THEN {"s"}
    ELSE IF IsSubclass(cls, "cExpr") THEN {"s", "omega", "t", "f"}
    ELSE {}

\* if arg == 0: assumptions['causal'] = True
Zeroed(arg, d) ==
    IF arg.p.zero THEN Put(d, "causal", "True") ELSE d

\* Expr.__init__(arg, **kw1) with the heap D, followed by the check of the
\* subclass, whose outcome is err.  The new value uses the dictionary of
\* arg when arg is an Expr and kw1 is empty; a shared dictionary is
\* written when arg == 0, also when the check that follows raises.
ExprNew(arg, kw1, D, err) ==
    IF IsExpr(arg) /\ kw1 = EmptyDict
    THEN [err |-> err, alias |-> TRUE, aid |-> arg.aid, d |-> Zeroed(arg, D[arg.aid]),
          D |-> [D EXCEPT ![arg.aid] = Zeroed(arg, @)]]
    ELSE [err |-> err, alias |-> FALSE, aid |-> 0, d |-> Zeroed(arg, kw1), D |-> D]

\* The constructor of cls given whether arg holds a symbol it rejects
\* (bad): cExpr checks before anything else is done.
ExprChecked(cls, arg, kw1, D, bad) ==
    IF IsSubclass(cls, "cExpr") /\ bad
    THEN [err |-> "CannotDependOn", alias |-> FALSE, aid |-> 0, d |-> EmptyDict, D |-> D]
    ELSE ExprNew(arg, kw1, D, IF bad THEN "CannotDependOn" ELSE "none")

\* cls(arg, **kw) with the heap D.  err is "none" or "CannotDependOn" (the
\* constructor's ValueError); alias says that the new value uses the
\* dictionary of arg (slot aid), d is its dictionary, and D is the heap
\* afterwards.
ExprInit(cls, arg, kw, D) ==
    ExprChecked(cls, arg, ImplicitKw(cls, kw), D, Forbidden(cls) \cap arg.p.fv # {})

\* lcapy.acdc's is_dc, is_ac and is_causal of a payload.
AcdcIsDc(p) == p.sig \in {"zero", "dc"}
AcdcIsAc(p) == p.sig = "ac"
AcdcIsCausal(p) == p.sig \in {"zero", "causal"}

\* Expr.infer_assumptions on dictionary d.
InferBase(d) ==
    Put(Put(Put(d, "dc", "None"), "ac", "None"), "causal", "None")

\* tExpr.infer_assumptions on dictionary d of a value with payload p.
InferT(d, p) ==
    LET z == Put(Put(Put(d, "dc", "False"), "ac", "False"), "causal", "False")
    IN  IF AcdcIsDc(p) THEN Put(z, "dc", "True")
        ELSE IF AcdcIsAc(p) THEN Put(z, "ac", "True")
        ELSE IF AcdcIsCausal(p) THEN Put(z, "causal", "True")
        ELSE z

\* v.infer_assumptions(): the heap afterwards.
InferAssumptions(v, D) ==
    [D EXCEPT ![v.aid] = IF IsSubclass(v.cls, "tExpr") THEN InferT(@, v.p) ELSE InferBase(@)]

\* The properties is_dc, is_ac, is_causal (key "dc", "ac", "causal"): the
\* heap after the read, and the value read.
QueryD(v, key, D) ==
    IF Has(D[v.aid], key) THEN D ELSE InferAssumptions(v, D)

QueryR(v, key, D) ==
    QueryD(v, key, D)[v.aid][key] = "True"

\* Expr.omega: the 'omega' assumption, or the symbol omega.
OmegaOf(v, D) ==
    IF Has(D[v.aid], "omega") THEN D[v.aid]["omega"] ELSE "omega"

(***************************************************************************)
(* Compatibility rules                                                     *)
(***************************************************************************)
\* What __compat_add__ / __compat_mul__ hand back: the result class, the
\* assumptions for the result and the heap afterwards; or the exception:
\* "CannotCombine" (ValueError 'Cannot combine ...'), "Incompatible"
\* (TypeError 'Incompatible arguments ...'), "CannotDependOn" (a constructor
\* called for a coercion raised), with the class names its message holds.
\* xfresh says that the x handed back is a new object with a dictionary
\* of its own (a coerced copy of the argument that shares nothing with it).
CompatOk(cls, asm, D) ==
    [err |-> "none", cls |-> cls, asm |-> asm, D |-> D, names |-> <<>>, xfresh |-> FALSE]

CompatErr(err, self, x, D) ==
    [err |-> err, cls |-> "nil", asm |-> EmptyDict, D |-> D,
     names |-> IF IsExpr(x) THEN <<self.cls, x.cls>> ELSE <<self.cls>>,
     xfresh |-> FALSE]

\* The outcome of a coercion whose constructor call gave c.
Coerced(rcls, cls, isx, asm, c) ==
    IF c.err = "none"
    THEN [err |-> "none", cls |-> rcls, asm |-> asm, D |-> c.D, names |-> <<>>,
          xfresh |-> isx /\ ~c.alias]
    ELSE [err |-> c.err, cls |-> "nil", asm |-> EmptyDict, D |-> c.D, names |-> <<cls>>,
          xfresh |-> FALSE]

\* 'return rcls, ..., cls(arg), assumptions': the coercion cls(arg) runs the
\* constructor, which may write a shared dictionary and may raise.
\* isx tells whether arg is the argument x (or self).
CompatCoerce(rcls, cls, arg, isx, asm, D) ==
    Coerced(rcls, cls, isx, asm, ExprInit(cls, arg, EmptyDict, D))

\* Expr.__compat_add__ without its final raise: the operands that match
\* no rule are combined in the class of self.
ExprCompatAddNoRaise(self, x, D) ==
    LET cls == self.cls
        xcls == x.cls
        asm == IF IsSubclass(cls, "sExpr") /\ IsSubclass(xcls, "sExpr")
                  /\ D[self.aid] = D[x.aid]
               THEN D[self.aid] ELSE EmptyDict
    IN  IF ~IsExpr(x) THEN CompatCoerce(cls, cls, x, TRUE, EmptyDict, D)
        ELSE IF cls = xcls THEN CompatOk(cls, asm, D)
        ELSE IF IsSubclass(cls, xcls) THEN CompatOk(cls, asm, D)
        ELSE IF IsSubclass(xcls, cls) THEN CompatCoerce(xcls, cls, x, TRUE, asm, D)
        ELSE IF xcls \in {"Expr", "cExpr"} THEN CompatOk(cls, asm, D)
        ELSE IF cls \in {"Expr", "cExpr"} THEN CompatCoerce(xcls, cls, self, FALSE, asm, D)
        ELSE CompatOk(cls, asm, D)

\* Expr.__compat_add__ with the rule of __compat_mul__ for causal: the
\* result is causal as soon as one s-domain operand asserts it.
ExprCompatAddCausalIfEither(self, x, D) ==
    LET cls == self.cls
        xcls == x.cls
        bothS == IsSubclass(cls, "sExpr") /\ IsSubclass(xcls, "sExpr")
        asm == IF bothS /\ (QueryR(self, "causal", D) \/ QueryR(x, "causal", D))
               THEN Put(EmptyDict, "causal", "True")
               ELSE IF bothS /\ D[self.aid] = D[x.aid]
               THEN D[self.aid] ELSE EmptyDict
    IN  IF ~IsExpr(x) THEN CompatCoerce(cls, cls, x, TRUE, EmptyDict, D)
        ELSE IF cls = xcls THEN CompatOk(cls, asm, D)
        ELSE IF IsSubclass(cls, xcls) THEN CompatOk(cls, asm, D)
        ELSE IF IsSubclass(xcls, cls) THEN CompatCoerce(xcls, cls, x, TRUE, asm, D)
        ELSE IF xcls \in {"Expr", "cExpr"} THEN CompatOk(cls, asm, D)
        ELSE IF cls \in {"Expr", "cExpr"} THEN CompatCoerce(xcls, cls, self, FALSE, asm, D)
        ELSE CompatErr("CannotCombine", self, x, D)

\* Expr.__compat_add__(self, x, op)
ExprCompatAdd(self, x, D) ==
    LET cls == self.cls
        xcls == x.cls
        asm == IF IsSubclass(cls, "sExpr") /\ IsSubclass(xcls, "sExpr")
                  /\ D[self.aid] = D[x.aid]
               THEN D[self.aid] ELSE EmptyDict
    IN  IF ~IsExpr(x) THEN CompatCoerce(cls, cls, x, TRUE, EmptyDict, D)
        ELSE IF cls = xcls THEN CompatOk(cls, asm, D)
        ELSE IF IsSubclass(cls, xcls) THEN CompatOk(cls, asm, D)
        ELSE IF IsSubclass(xcls, cls) THEN CompatCoerce(xcls, cls, x, TRUE, asm, D)
        ELSE IF xcls \in {"Expr", "cExpr"} THEN CompatOk(cls, asm, D)
        ELSE IF cls \in {"Expr", "cExpr"} THEN CompatCoerce(xcls, cls, self, FALSE, asm, D)
        ELSE CompatErr("CannotCombine", self, x, D)

\* Phasor.__compat_add__ treating every plain number as it treats 0.
PhasorCompatAddAnyNumber(self, x, D) ==
    IF ~IsExpr(x) THEN CompatCoerce(self.cls, self.cls, x, TRUE, D[self.aid], D)
    ELSE IF ~IsSubclass(x.cls, "Phasor") THEN CompatErr("Incompatible", self, x, D)
    ELSE IF OmegaOf(self, D) # OmegaOf(x, D) THEN CompatErr("CannotCombine", self, x, D)
    ELSE CompatOk(self.cls, EmptyDict, D)

\* Phasor.__compat_add__(self, x, op)
PhasorCompatAdd(self, x, D) ==
    IF x.cls = "int" /\ x.p.zero THEN CompatCoerce(self.cls, self.cls, x, TRUE, D[self.aid], D)
    ELSE IF ~IsSubclass(x.cls, "Phasor") THEN CompatErr("Incompatible", self, x, D)
    ELSE IF OmegaOf(self, D) # OmegaOf(x, D) THEN CompatErr("CannotCombine", self, x, D)
    ELSE CompatOk(self.cls, EmptyDict, D)

\* self.__compat_add__(x, op), by the class of self.
CompatAdd(self, x, D) ==
    IF IsSubclass(self.cls, "Phasor") THEN PhasorCompatAdd(self, x, D)
    ELSE ExprCompatAdd(self, x, D)

\* self.assumptions[key] == True, once key has been read.
Holds(v, key, D) ==
    D[v.aid][key] = "True"

\* The if / elif chain of Expr.__compat_mul__ for two s-domain values.  It
\* reads is_causal, is_dc and is_ac of the operands in the order of the
\* chain (each 'or' and 'and' stops at the first operand that decides it),
\* and every read may run infer_assumptions on the operand it reads: each
\* step below is the chain after one more read, with the heap D the reads
\* so far have left.  The outcome is the assumptions chosen and the heap.
\* Last test, after self.is_dc: x.is_ac has been read.
MulDcAcX(self, x, D) ==
    IF Holds(x, "ac", D) THEN [asm |-> Put(EmptyDict, "ac", "True"), D |-> D]
    ELSE [asm |-> EmptyDict, D |-> D]

\* elif self.is_dc and x.is_ac
MulDcAc(self, x, D) ==
    IF Holds(self, "dc", D) THEN MulDcAcX(self, x, QueryD(x, "ac", D))
    ELSE [asm |-> EmptyDict, D |-> D]

\* elif self.is_ac and x.is_dc, after x.is_dc has been read
MulAcDcX(self, x, D) ==
    IF Holds(x, "dc", D) THEN [asm |-> Put(EmptyDict, "ac", "True"), D |-> D]
    ELSE MulDcAc(self, x, D)

\* elif self.is_ac and x.is_ac, after x.is_ac has been read
MulAcX(self, x, D) ==
    IF Holds(x, "ac", D) THEN [asm |-> D[self.aid], D |-> D]
    ELSE MulAcDcX(self, x, QueryD(x, "dc", D))

\* elif self.is_ac and ..., after self.is_ac has been read
MulAcSelf(self, x, D) ==
    IF Holds(self, "ac", D) THEN MulAcX(self, x, QueryD(x, "ac", D))
    ELSE MulDcAc(self, x, D)

\* elif self.is_dc and x.is_dc, after x.is_dc has been read
MulDcX(self, x, D) ==
    IF Holds(x, "dc", D) THEN [asm |-> D[self.aid], D |-> D]
    ELSE MulAcSelf(self, x, QueryD(self, "ac", D))

\* elif self.is_dc and ..., after self.is_dc has been read
MulDcSelf(self, x, D) ==
    IF Holds(self, "dc", D) THEN MulDcX(self, x, QueryD(x, "dc", D))
    ELSE MulAcSelf(self, x, QueryD(self, "ac", D))

\* if self.is_causal or x.is_causal, after x.is_causal has been read
MulCausalX(self, x, D) ==
    IF Holds(x, "causal", D) THEN [asm |-> Put(EmptyDict, "causal", "True"), D |-> D]
    ELSE MulDcSelf(self, x, QueryD(self, "dc", D))

\* if self.is_causal or ..., after self.is_causal has been read
MulCausalSelf(self, x, D) ==
    IF Holds(self, "causal", D) THEN [asm |-> Put(EmptyDict, "causal", "True"), D |-> D]
    ELSE MulCausalX(self, x, QueryD(x, "causal", D))

\* The assumptions Expr.__compat_mul__ works out for two s-domain values.
MulAssumptions(self, x, D) ==
    MulCausalSelf(self, x, QueryD(self, "causal", D))

\* The rules of Expr.__compat_mul__ that follow the assumptions m.
MulRules(self, x, m) ==
    LET cls == self.cls
        xcls == x.cls
        both(c) == IsSubclass(cls, c) /\ IsSubclass(xcls, c)
    IN  IF cls = xcls THEN CompatCoerce(cls, cls, x, TRUE, m.asm, m.D)
        ELSE IF IsSubclass(cls, "omegaExpr") /\ IsSubclass(xcls, "tExpr")
             THEN CompatOk(xcls, m.asm, m.D)
        ELSE IF IsSubclass(cls, "tExpr") /\ IsSubclass(xcls, "omegaExpr")
             THEN CompatOk(cls, m.asm, m.D)
        ELSE IF xcls \in {"Expr", "cExpr"} THEN CompatCoerce(cls, cls, x, TRUE, m.asm, m.D)
        ELSE IF cls \in {"Expr", "cExpr"} THEN CompatOk(xcls, m.asm, m.D)
        ELSE IF IsSubclass(xcls, cls) THEN CompatCoerce(xcls, cls, x, TRUE, m.asm, m.D)
        ELSE IF IsSubclass(cls, xcls) THEN CompatCoerce(cls, cls, x, TRUE, m.asm, m.D)
        ELSE IF both("tExpr") \/ both("sExpr") \/ both("omegaExpr")
             THEN CompatCoerce(cls, cls, x, TRUE, m.asm, m.D)
        ELSE CompatErr("CannotCombine", self, x, m.D)

\* Expr.__compat_mul__(self, x, op)
ExprCompatMul(self, x, D) ==
    IF ~IsExpr(x) THEN CompatCoerce(self.cls, self.cls, x, TRUE, EmptyDict, D)
    ELSE MulRules(self, x,
                  IF IsSubclass(self.cls, "sExpr") /\ IsSubclass(x.cls, "sExpr")
                  THEN MulAssumptions(self, x, D)
                  ELSE [asm |-> EmptyDict, D |-> D])

\* Phasor.__compat_mul__ without the rule for omegaExpr.
PhasorCompatMulNoOmega(self, x, D) ==
    IF ~IsExpr(x) THEN CompatCoerce(self.cls, self.cls, x, TRUE, D[self.aid], D)
    ELSE IF ~IsSubclass(x.cls, "Phasor") THEN CompatErr("Incompatible", self, x, D)
    ELSE IF OmegaOf(self, D) # OmegaOf(x, D) THEN CompatErr("CannotCombine", self, x, D)
    ELSE CompatOk(self.cls, D[self.aid], D)

\* Phasor.__compat_mul__(self, x, op)
PhasorCompatMul(self, x, D) ==
    IF ~IsExpr(x) THEN CompatCoerce(self.cls, self.cls, x, TRUE, D[self.aid], D)
    ELSE IF IsSubclass(x.cls, "omegaExpr") THEN CompatOk(self.cls, D[self.aid], D)
    ELSE IF ~IsSubclass(x.cls, "Phasor") THEN CompatErr("Incompatible", self, x, D)
    ELSE IF OmegaOf(self, D) # OmegaOf(x, D) THEN CompatErr("CannotCombine", self, x, D)
    ELSE CompatOk(self.cls, D[self.aid], D)

\* self.__compat_mul__(x, op), by the class of self.
CompatMul(self, x, D) ==
    IF IsSubclass(self.cls, "Phasor") THEN PhasorCompatMul(self, x, D)
    ELSE ExprCompatMul(self, x, D)

(***************************************************************************)
(* The algebra engine on abstract payloads                                 *)
(***************************************************************************)
\* p + q and p - q.  cancel: the two payloads cancel (x - x, x + (-x)),
\* which can only happen to nonzero payloads over the same symbols.
CanCancel(p, q) ==
    ~p.zero /\ ~q.zero /\ p.fv = q.fv /\ p.sig = q.sig

PAdd(p, q, cancel) ==
    IF p.zero THEN q
    ELSE IF q.zero THEN p
    ELSE IF cancel THEN PZero
    ELSE Payload(FALSE, p.fv \cup q.fv, IF p.sig = q.sig THEN p.sig ELSE "other")

\* p * q
PMul(p, q) ==
    IF p.zero \/ q.zero THEN PZero
    ELSE Payload(FALSE, p.fv \cup q.fv,
                 IF p.sig = "dc" THEN q.sig
                 ELSE IF q.sig = "dc" THEN p.sig
                 ELSE IF "causal" \in {p.sig, q.sig} THEN "causal"
                 ELSE "other")

\* p / q (x / 0 is sympy's zoo or nan, which is not 0).
PDiv(p, q) ==
    IF q.zero THEN Payload(FALSE, p.fv, "dc")
    ELSE IF p.zero THEN PZero
    ELSE Payload(FALSE, p.fv \cup q.fv, IF q.sig = "dc" THEN p.sig ELSE "other")

AddOps == {"+", "-"}
MulOps == {"*", "/"}
CmpOps == {"==", "!=", "<", "<=", ">", ">="}

POp(op, p, q, cancel) ==
    IF op \in AddOps THEN PAdd(p, q, cancel)
    ELSE IF op = "*" THEN PMul(p, q)
    ELSE PDiv(p, q)

\* sympy's is_real of a payload: t, f and omega are declared real
\* (symbol(.., real=True)), s is not.
IsReal(p) ==
    "s" \notin p.fv

(***************************************************************************)
(* Contexts: the symbol table and the global assumptions                   *)
(***************************************************************************)
\* The number of contexts made with new(), and of calls on the contexts
\* in one program.
MaxContexts == 2
MaxContextCalls == 5

\* The facts a program assumes, each an applied predicate such as
\* Q.real(x), and the symbols it defines besides the four of the module.
Facts == {"p"}

GlobalSymbols ==
    [x \in Syms |-> IF x = "s" THEN "plain" ELSE "real"]

SymbolInputs ==
    {<<"x", "plain">>, <<"t", "positive">>}

\* Contexts are known by numbers; NoContext stands for None.
NoContext == -1

\* Context.__init__, with the two dictionaries filled in.
NewContext(symbols, assumptions) ==
    [symbols |-> symbols, assumptions |-> assumptions, previous |-> NoContext]

\* What the program has open: for each switch() not yet answered by the
\* restore() of the same context, that context (c), the context that was
\* current before the switch (was) and the global assumptions then (ga).
Frame(c, was, ga) ==
    [c |-> c, was |-> was, ga |-> ga]

NoFrame == Frame(NoContext, NoContext, {})

\* The record of a call on the contexts: the operation, the context it
\* was called on, the exception, the number of calls so
\* far, the frames open after the call, the frame a restore() closed
\* (NoFrame when it answered no switch), and the contexts (pre) and the
\* global assumptions (ga) before the call.
ContextCall(op, c, err, n, open, closed, pre, ga) ==
    [op |-> op, c |-> c, err |-> err, n |-> n, open |-> open, closed |-> closed, pre |-> pre,
     ga |-> ga]

\* dict.update(facts) for the set global_assumptions.  update takes the
\* elements of an iterable that has no keys() as key/value pairs; an
\* applied predicate is not a sequence, so any fact makes it raise.
DictUpdate(d, facts) ==
    IF facts = {} THEN [err |-> "none", d |-> d] ELSE [err |-> "TypeError", d |-> d]

(***************************************************************************)
(* State: three references (a and b hold operands, r the last result), the *)
(* heap of assumption dictionaries, and a record of the last call.         *)
(***************************************************************************)
VARIABLES vals, dicts, last, sup, out, scall, contexts, context, global_assumptions, ccall

vars == <<vals, dicts, last, sup, out, scall, contexts, context, global_assumptions, ccall>>

\* The superposition of the explored program, when it makes one: vals["a"]
\* refers to it, sup is its mapping from keys to components, out is what
\* the last call on it returned and scall records that call.
svars == <<sup, out, scall>>

\* The symbol-assumption contexts: contexts maps each Context object made
\* so far to its fields (0 is global_context), context is the module
\* global of that name, global_assumptions is sympy's set of assumed
\* facts, and ccall records the last call on them.
cvars == <<contexts, context, global_assumptions, ccall>>

\* The record of a call: the operation, its operand references, the
\* exception ("none" if it returned), the class names in the exception's
\* message, a boolean result ("True" / "False", "rel" for an ordering, "-"
\* for none) and the heap as it was before the call.
Call(op, l, r, err, names, res, pre) ==
    [op |-> op, l |-> l, r |-> r, err |-> err, names |-> names, res |-> res, pre |-> pre]

\* The slots of the dictionaries the values of V use.
Used(V) ==
    {V[g].aid : g \in {h \in Regs : IsExpr(V[h])}}

\* The first slot not in use.
FreshSlot(V) ==
    CHOOSE i \in Slots \ Used(V) : \A j \in Slots \ Used(V) : i <= j

\* The heap with the dictionaries nothing refers to dropped.
Collect(D, V) ==
    [i \in Slots |-> IF i \in Used(V) THEN D[i] ELSE EmptyDict]

\* Register g set to the value an ExprInit result n describes (class cls,
\* payload p); the value it replaces is dropped first.
Store(g, cls, p, part, n) ==
    LET V0 == [vals EXCEPT ![g] = NoVal]
        slot == IF n.alias THEN n.aid ELSE FreshSlot(V0)
        V1 == [V0 EXCEPT ![g] = Val(cls, p, slot, part)]
    IN  /\ vals' = V1
        /\ dicts' = Collect([n.D EXCEPT ![slot] = n.d], V1)

\* A call that raised or returned no new object: r is cleared when clear.
NoResult(D, clear) ==
    LET V1 == IF clear THEN [vals EXCEPT !["r"] = NoVal] ELSE vals
    IN  /\ vals' = V1
        /\ dicts' = Collect(D, V1)

\* The keyword arguments the inputs give to a constructor of cls.
KwFor(cls) ==
    IF IsSubclass(cls, "sExpr") THEN KwInputs
    ELSE IF IsSubclass(cls, "Phasor") THEN KwOmega
    ELSE {EmptyDict}

\* The domain symbol of a class (its var), "none" for a class without one.
\* Phasors are functions of omega too, but the class has no var.
VarOf(cls) ==
    IF IsSubclass(cls, "sExpr") THEN "s"
    ELSE IF IsSubclass(cls, "tExpr") THEN "t"
    ELSE IF IsSubclass(cls, "fExpr") THEN "f"
    ELSE IF IsSubclass(cls, "omegaExpr") THEN "omega"
    ELSE "none"

\* The classes whose constructor adds no keyword of its own, so that
\* cls(value) shares the dictionary of value.
SharingClasses ==
    {c \in Classes : ImplicitKw(c, EmptyDict) = EmptyDict}

Keys == {"dc", "ac", "causal"}

\* Bounds on the operands of a binary operation.  The first operand is an
\* Expr or holds nothing but its own variable; it is fresh, or an s-domain
\* value whose assumptions have been read.  The second is 0 or 1 and is given keyword
\* assumptions only when both operands are s-domain values or both phasors.
PairFirst(v) ==
    /\ v.cls = "Expr" \/ v.p.fv \subseteq {VarOf(v.cls)}
    /\ last.op = "new" \/ (last.op \in Keys /\ last.l = "a" /\ IsSubclass(v.cls, "sExpr"))

PairSecond(v, cls, p, kw) ==
    /\ p \in {PZero, POne}
    /\ kw # EmptyDict =>
          \/ IsSubclass(v.cls, "sExpr") /\ IsSubclass(cls, "sExpr")
          \/ IsSubclass(v.cls, "Phasor") /\ IsSubclass(cls, "Phasor")

Init ==
    /\ vals = [g \in Regs |-> NoVal]
    /\ dicts = [i \in Slots |-> EmptyDict]
    /\ last = Call("init", "-", "-", "none", <<>>, "-", [i \in Slots |-> EmptyDict])
    /\ sup = EmptyDict
    /\ out = [cls |-> "nil", S |-> EmptyDict, x |-> EmptyDict]
    /\ scall = [op |-> "init", n |-> 0, arg |-> [type |-> "none"], err |-> "none",
                pre |-> EmptyDict]
    /\ contexts = Put(EmptyDict, 0, NewContext(GlobalSymbols, EmptyDict))
    /\ context = 0
    /\ global_assumptions = {}
    /\ ccall = ContextCall("init", 0, "none", 0, <<>>, NoFrame, EmptyDict, {})

\* The end of a construction into g whose constructor call gave n.
Built(g, cls, p, n) ==
    /\ last' = Call("new", g, cls, n.err, <<>>, "-", dicts)
    /\ IF n.err = "none" THEN Store(g, cls, p, "none", n)
       ELSE NoResult(n.D, FALSE)

\* g = cls(payload, **kw)
Construct(g, cls, p, kw) ==
    Built(g, cls, p, ExprInit(cls, Raw(p), kw, dicts))

\* The first operand: a = cls(payload, **kw).
ConstructA(cls, p, kw) ==
    /\ vals["a"] = NoVal
    /\ Construct("a", cls, p, kw)

\* The second operand: b = cls(payload, **kw), once a is there and no
\* result is pending.
ConstructB(cls, p, kw) ==
    /\ IsExpr(vals["a"]) /\ vals["b"] = NoVal /\ vals["r"] = NoVal
    /\ PairFirst(vals["a"]) /\ PairSecond(vals["a"], cls, p, kw)
    /\ Construct("b", cls, p, kw)

\* The second operand is a plain int: b = 0 or b = 1.
ConstructInt(p) ==
    /\ IsExpr(vals["a"]) /\ vals["b"] = NoVal /\ vals["r"] = NoVal
    /\ PairFirst(vals["a"]) /\ last.op = "new"
    /\ last' = Call("int", "b", "-", "none", <<>>, "-", dicts)
    /\ vals' = [vals EXCEPT !["b"] = Number(p)]
    /\ dicts' = Collect(dicts, vals')

\* The end of r = cls(a) whose constructor call gave n.
Converted(cls, n) ==
    /\ last' = Call("convert", "a", cls, n.err, <<>>, "-", dicts)
    /\ IF n.err = "none" THEN Store("r", cls, vals["a"].p, "none", n)
       ELSE NoResult(n.D, TRUE)

\* r = cls(a): a value built from another value, without keyword arguments.
Convert(cls) ==
    /\ IsExpr(vals["a"]) /\ vals["b"] = NoVal /\ vals["r"] = NoVal
    /\ last.op = "new"
    /\ vals["a"].cls = "Expr" \/ vals["a"].p.fv \subseteq {VarOf(vals["a"].cls)}
    /\ Converted(cls, ExprInit(cls, vals["a"], EmptyDict, dicts))

\* g.is_dc, g.is_ac, g.is_causal.  The explored programs read the
\* assumptions of a while there is no result, and those of a result once,
\* right after it is made.
Query(g, key) ==
    /\ IsExpr(vals[g]) /\ vals["b"] = NoVal
    /\ IF g = "a" THEN vals["r"] = NoVal ELSE last.op \in {"convert", "magnitude"}
    /\ last' = Call(key, g, "-", "none", <<>>,
                    IF QueryR(vals[g], key, dicts) THEN "True" ELSE "False", dicts)
    /\ dicts' = QueryD(vals[g], key, dicts)
    /\ vals' = vals

\* Both operands are built and nothing has been done with them yet.
Ready ==
    /\ vals["b"] # NoVal
    /\ last.op \in {"new", "int"}

\* return cls(payload, **assumptions): the constructor call gave n.
Returned(op, l, g, cls, p, n) ==
    /\ last' = Call(op, l, g, n.err, IF n.err = "none" THEN <<>> ELSE <<cls>>, "-", dicts)
    /\ IF n.err = "none" THEN Store("r", cls, p, "none", n)
       ELSE NoResult(n.D, TRUE)

\* The arithmetic method after its __compat_add__ / __compat_mul__ call
\* gave c, for the payload p of the result, l and g the references of the
\* left and right operand.
Arith(op, l, g, p, c) ==
    IF c.err # "none"
    THEN /\ last' = Call(op, l, g, c.err, c.names, "-", dicts)
         /\ NoResult(c.D, TRUE)
    ELSE Returned(op, l, g, c.cls, p, ExprInit(c.cls, Raw(p), c.asm, c.D))

\* The methods __add__, __sub__, __mul__, __truediv__ (reflected FALSE:
\* r = a op b) and __radd__, __rsub__, __rmul__, __rtruediv__ (reflected
\* TRUE: r = b op a with b a plain number): the method asks
\* __compat_add__ or __compat_mul__ of self (a) for the result class and
\* assumptions and returns cls(payload, **assumptions).
BinOp(op, reflected, cancel) ==
    /\ Ready
    /\ reflected => ~IsExpr(vals["b"])
    /\ cancel => op \in AddOps /\ CanCancel(vals["a"].p, vals["b"].p)
    /\ Arith(op, IF reflected THEN "b" ELSE "a", IF reflected THEN "a" ELSE "b",
             IF reflected THEN POp(op, vals["b"].p, vals["a"].p, cancel)
             ELSE POp(op, vals["a"].p, vals["b"].p, cancel),
             IF op \in AddOps THEN CompatAdd(vals["a"], vals["b"], dicts)
             ELSE CompatMul(vals["a"], vals["b"], dicts))

\* The boolean self.expr == x.expr of two payloads, when the abstraction
\* decides it ("?" when it does not).
PEq(p, q) ==
    IF p.zero /\ q.zero THEN "True"
    ELSE IF p.zero # q.zero \/ p.fv # q.fv THEN "False"
    ELSE "?"

\* The result of a comparison of two payloads; eq is the answer where the
\* abstraction leaves it open.
CmpResult(op, p, q, eq) ==
    LET e == IF PEq(p, q) = "?" THEN eq ELSE PEq(p, q) = "True"
    IN  IF op = "==" THEN (IF e THEN "True" ELSE "False")
        ELSE IF op = "!=" THEN (IF e THEN "False" ELSE "True")
        ELSE "rel"

\* What a comparison with None answers: __eq__ False, the other five True.
NoneResult(op) ==
    IF op = "==" THEN "False" ELSE "True"

\* a op None
CompareNone(op) ==
    /\ IsExpr(vals["a"]) /\ vals["b"] = NoVal /\ vals["r"] = NoVal
    /\ last' = Call(op, "a", "None", "none", <<>>, NoneResult(op), dicts)
    /\ UNCHANGED <<vals, dicts>>

\* A comparison that goes straight to the payloads, without
\* __compat_add__.
CompareNoCompat(op, eq) ==
    /\ Ready
    /\ eq => op \in {"==", "!="} /\ PEq(vals["a"].p, vals["b"].p) = "?"
    /\ last' = Call(op, "a", "b", "none", <<>>,
                    CmpResult(op, vals["a"].p, vals["b"].p, eq), dicts)
    /\ UNCHANGED <<vals, dicts>>

\* The comparison after x = cls(x), whose constructor call gave n.
Answered(op, eq, c, n) ==
    /\ last' = IF n.err # "none" THEN Call(op, "a", "b", n.err, <<c.cls>>, "-", dicts)
               ELSE Call(op, "a", "b", "none", <<>>,
                         CmpResult(op, vals["a"].p, vals["b"].p, eq), dicts)
    /\ dicts' = IF c.xfresh THEN c.D ELSE n.D

\* The comparison after its __compat_add__ call gave c.
Compared(op, eq, c) ==
    /\ vals' = vals
    /\ IF c.err # "none"
       THEN /\ last' = Call(op, "a", "b", c.err, c.names, "-", dicts)
            /\ dicts' = c.D
       ELSE Answered(op, eq, c, ExprInit(c.cls, vals["b"], EmptyDict, c.D))

\* a op b for a comparison: __compat_add__, then x = cls(x), then the
\* payloads are compared.
Compare(op, eq) ==
    /\ Ready
    /\ eq => op \in {"==", "!="} /\ PEq(vals["a"].p, vals["b"].p) = "?"
    /\ Compared(op, eq, CompatAdd(vals["a"], vals["b"], dicts))

\* r = a.magnitude.  A real value is returned itself, with its part
\* attribute set; otherwise the magnitude is worked out from the rational
\* function Ratfun(self.expr, self.var), which needs the class to have var.
Magnitude ==
    LET v == vals["a"]
        n == ExprInit(v.cls, Raw(v.p), EmptyDict, dicts)
    IN  /\ IsExpr(v) /\ vals["b"] = NoVal /\ vals["r"] = NoVal
        /\ IF IsReal(v.p)
           THEN /\ last' = Call("magnitude", "a", "-", "none", <<>>, "-", dicts)
                /\ vals' = [vals EXCEPT !["a"] = [v EXCEPT !.part = "magnitude"],
                                        !["r"] = [v EXCEPT !.part = "magnitude"]]
                /\ dicts' = Collect(dicts, vals')
           ELSE IF VarOf(v.cls) = "none"
           THEN /\ last' = Call("magnitude", "a", "-", "AttributeError", <<>>, "-", dicts)
                /\ NoResult(dicts, TRUE)
           ELSE /\ last' = Call("magnitude", "a", "-", "none", <<>>, "-", dicts)
                /\ Store("r", v.cls, v.p, "magnitude", n)

\* What evaluate raises for the value v: AttributeError when the class of
\* v has no var (hasattr fails, and lambdify(self.var, ...) reads it all
\* the same), ValueError for symbols other than var ("UndefinedSymbols")
\* and for a payload that depends on var when there is no argument
\* ("NeedValue"); "none" when it goes on to compute the number.
EvaluateErr(v, witharg) ==
    IF VarOf(v.cls) = "none" THEN "AttributeError"
    ELSE IF v.p.fv \ {VarOf(v.cls)} # {} THEN "UndefinedSymbols"
    ELSE IF ~witharg /\ VarOf(v.cls) \in v.p.fv THEN "NeedValue"
    ELSE "none"

\* a.evaluate(arg) and a.evaluate().  The call record keeps in r whether
\* there was an argument and in res whether a number came back.
Evaluated(witharg, err) ==
    /\ last' = Call("evaluate", "a", IF witharg THEN "arg" ELSE "noarg", err, <<>>,
                    IF err = "none" THEN "number" ELSE "-", dicts)
    /\ UNCHANGED <<vals, dicts>>

Evaluate(witharg) ==
    /\ IsExpr(vals["a"]) /\ vals["b"] = NoVal /\ vals["r"] = NoVal
    /\ last.op = "new"
    /\ Evaluated(witharg, EvaluateErr(vals["a"], witharg))

(***************************************************************************)
(* Domain transforms                                                       *)
(***************************************************************************)
\* The role-typed classes of one quantity in the s, t, f and omega domain.
RoleTable ==
    {<<"Zs", "Zt", "Zf", "Zomega">>, <<"Ys", "Yt", "Yf", "Yomega">>,
     <<"Vs", "Vt", "Vf", "Vomega">>, <<"Is", "It", "If", "Iomega">>,
     <<"Hs", "Ht", "Hf", "Homega">>}

\* The entry of RoleTable that has class c in column i.
RoleRow(c, i) ==
    CHOOSE q \in RoleTable : q[i] = c

\* self._laplace_conjugate_class as the constructors set it ("none" for a
\* class whose constructors set none).
LaplaceConj ==
    [c \in Classes |->
       IF c \in SClasses THEN RoleRow(c, 1)[2]
       ELSE IF c \in TClasses THEN RoleRow(c, 2)[1]
       ELSE IF c \in {"Vphasor", "Vconst"} THEN "Vt"
       ELSE IF c \in {"Iphasor", "Iconst"} THEN "It"
       ELSE IF c = "sExpr" THEN "tExpr"
       ELSE IF c = "tExpr" THEN "sExpr"
       ELSE "none"]

\* self._fourier_conjugate_class as the constructors set it.
FourierConj ==
    [c \in Classes |->
       IF c \in TClasses THEN RoleRow(c, 2)[3]
       ELSE IF c \in FClasses THEN RoleRow(c, 3)[2]
       ELSE IF c \in WClasses THEN RoleRow(c, 4)[2]
       ELSE IF c = "Vn" THEN "Vt"
       ELSE IF c = "In" THEN "It"
       ELSE IF c = "tExpr" THEN "fExpr"
       ELSE IF c \in {"fExpr", "omegaExpr", "noiseExpr"} THEN "tExpr"
       ELSE "none"]

\* Expr._subs1 with new an omegaExpr: class_map, else the class of new.
SubsOmega ==
    [c \in Classes |->
       IF c \in SClasses THEN RoleRow(c, 1)[4]
       ELSE IF c \in FClasses THEN RoleRow(c, 3)[4]
       ELSE "omegaExpr"]

\* Expr._subs1 with new an fExpr: class_map, else the class of new.
SubsF ==
    [c \in Classes |->
       IF c \in SClasses THEN RoleRow(c, 1)[3]
       ELSE IF c \in WClasses THEN RoleRow(c, 4)[3]
       ELSE "fExpr"]

\* self.expr.subs(old, expr) where expr holds the symbol y.
SubsP(p, x, y) ==
    IF x \in p.fv THEN Payload(p.zero, (p.fv \ {x}) \cup {y}, p.sig) ELSE p

\* lcapy.laplace's laplace_transform(expr, t, s).
LaplaceP(p) ==
    IF p.zero THEN PZero ELSE Payload(FALSE, (p.fv \ {"t"}) \cup {"s"}, "dc")

\* lcapy.laplace's inverse_laplace_transform(expr, s, t, **assumptions):
\* with causal=True the result is 0 for t < 0, with dc=True or ac=True it
\* is extrapolated to t < 0, otherwise it is known for t >= 0 only.
InverseLaplaceP(p, d) ==
    IF p.zero THEN PZero
    ELSE IF Asserts(d, "dc") THEN Payload(FALSE, p.fv \ {"s"}, "dc")
    ELSE Payload(FALSE, (p.fv \ {"s"}) \cup {"t"},
                 IF Asserts(d, "ac") THEN "ac"
                 ELSE IF Asserts(d, "causal") THEN "causal"
                 ELSE "other")

\* lcapy.fourier's fourier_transform(expr, t, f) and its inverse.
FourierP(p) ==
    IF p.zero THEN PZero ELSE Payload(FALSE, (p.fv \ {"t"}) \cup {"f"}, "dc")

InverseFourierP(p) ==
    IF p.zero THEN PZero ELSE Payload(FALSE, (p.fv \ {"f"}) \cup {"t"}, "other")

\* check.amp * exp(j * check.phase) of a sinusoid.
PhasorP(p) ==
    Payload(FALSE, p.fv \ {"t"}, "dc")

\* self.real.expr * cos(omega * t) + self.imag.expr * sin(omega * t)
PhasorTimeP(p) ==
    IF p.zero THEN PZero ELSE Payload(FALSE, p.fv \cup {"t"}, "ac")

\* What a transform is about to return: the constructor call cls(p, **kw)
\* under the heap D, or the exception it raised before.
Pend(cls, p, kw, D) ==
    [err |-> "none", cls |-> cls, p |-> p, kw |-> kw, D |-> D]

Fail(err, D) ==
    [err |-> err, cls |-> "nil", p |-> PZero, kw |-> EmptyDict, D |-> D]

\* The value of an inner call: the constructor call t has been made and
\* gave n.  d is the dictionary of the new value.
MadeOf(t, n) ==
    [err |-> IF t.err # "none" THEN t.err ELSE n.err, cls |-> t.cls, p |-> t.p,
     d |-> n.d, D |-> t.D]

Made(t) ==
    MadeOf(t, ExprInit(t.cls, Raw(t.p), t.kw, t.D))

\* tExpr.laplace of a value of class cls, payload p, whose dictionary is d
\* once infer_assumptions has run.
TimeLaplace(cls, p, d, D) ==
    Pend(LaplaceConj[cls], LaplaceP(p), d, D)

\* tExpr.fourier
TimeFourier(cls, p, d, D) ==
    Pend(FourierConj[cls], FourierP(p), d, D)

\* tExpr.phasor without the check of ACChecker.
TimePhasorUnchecked(p, D, w) ==
    Pend("Phasor", PhasorP(p), Put(EmptyDict, "omega", w), D)

\* tExpr.phasor; w is the angular frequency ACChecker finds.
TimePhasor(p, D, w) ==
    IF ~AcdcIsAc(p) THEN Fail("CannotConvert", D)
    ELSE Pend("Phasor", PhasorP(p), Put(EmptyDict, "omega", w), D)

\* sExpr.inverse_laplace() and sExpr.time(): the assumptions of self are
\* handed to the inverse transform.
SInverseLaplace(cls, p, d, D) ==
    Pend(LaplaceConj[cls], InverseLaplaceP(p, d), EmptyDict, D)

\* sExpr.laplace: infer_assumptions, then self.__class__(self, **assumptions).
SLaplace(v, D) ==
    Pend(v.cls, v.p, D[v.aid], D)

\* The inner value x of x.fourier() / x.laplace() / x.phasor(), if it was made.
ThenFourier(x) ==
    IF x.err # "none" THEN Fail(x.err, x.D) ELSE TimeFourier(x.cls, x.p, x.d, x.D)

ThenLaplace(x) ==
    IF x.err # "none" THEN Fail(x.err, x.D) ELSE TimeLaplace(x.cls, x.p, InferT(x.d, x.p), x.D)

ThenPhasor(x, w) ==
    IF x.err # "none" THEN Fail(x.err, x.D) ELSE TimePhasor(x.p, x.D, w)

\* sExpr.fourier once is_causal has been read (heap D).
SFourier(v, D) ==
    IF Holds(v, "causal", D) THEN Pend(SubsF[v.cls], SubsP(v.p, "s", "f"), EmptyDict, D)
    ELSE ThenFourier(Made(SInverseLaplace(v.cls, v.p, D[v.aid], D)))

\* Phasor.time
PhasorTime(cls, p, D) ==
    Pend(IF LaplaceConj[cls] = "none" THEN "tExpr" ELSE LaplaceConj[cls],
         PhasorTimeP(p), EmptyDict, D)

\* fExpr.inverse_fourier
FInverseFourier(cls, p, D) ==
    Pend(FourierConj[cls], InverseFourierP(p), EmptyDict, D)

\* The inner value x of x.inverse_fourier().
ThenInverseFourier(x) ==
    IF x.err # "none" THEN Fail(x.err, x.D) ELSE FInverseFourier(x.cls, x.p, x.D)

\* omegaExpr.inverse_fourier: self(2 * pi * f).inverse_fourier()
OmegaInverseFourier(cls, p, D) ==
    ThenInverseFourier(Made(Pend(SubsF[cls], SubsP(p, "omega", "f"), EmptyDict, D)))

\* The transforms of an s-domain value.
STransform(kind, v, D, w) ==
    IF kind \in {"inverse_laplace", "time"} THEN SInverseLaplace(v.cls, v.p, D[v.aid], D)
    ELSE IF kind = "laplace" THEN SLaplace(v, InferAssumptions(v, D))
    ELSE IF kind = "fourier" THEN SFourier(v, QueryD(v, "causal", D))
    ELSE IF kind = "phasor" THEN ThenPhasor(Made(SInverseLaplace(v.cls, v.p, D[v.aid], D)), w)
    ELSE IF kind = "jomega" THEN Pend(SubsOmega[v.cls], SubsP(v.p, "s", "omega"), EmptyDict, D)
    ELSE IF kind = "frequency_response"
         THEN Pend(SubsF[v.cls], SubsP(v.p, "s", "f"), EmptyDict, D)
    ELSE Fail("AttributeError", D)

\* The transforms of a t-domain value.
TTransform(kind, v, D, w) ==
    IF kind = "laplace"
    THEN TimeLaplace(v.cls, v.p, InferT(D[v.aid], v.p), InferAssumptions(v, D))
    ELSE IF kind = "fourier" THEN TimeFourier(v.cls, v.p, D[v.aid], D)
    ELSE IF kind = "phasor" THEN TimePhasor(v.p, D, w)
    ELSE Fail("AttributeError", D)

\* The transforms of a phasor.
PTransform(kind, v, D) ==
    IF kind = "time" THEN PhasorTime(v.cls, v.p, D)
    ELSE IF kind = "laplace" THEN ThenLaplace(Made(PhasorTime(v.cls, v.p, D)))
    ELSE IF kind = "fourier" THEN ThenFourier(Made(PhasorTime(v.cls, v.p, D)))
    ELSE IF kind = "phasor" THEN Pend(v.cls, v.p, D[v.aid], D)
    ELSE Fail("AttributeError", D)

\* The transforms of an omega-domain value; noiseExpr.time() returns the
\* int 0.
WTransform(kind, v, D) ==
    IF kind = "time" /\ IsSubclass(v.cls, "noiseExpr") THEN Pend("int", PZero, EmptyDict, D)
    ELSE IF kind \in {"inverse_fourier", "time"} THEN OmegaInverseFourier(v.cls, v.p, D)
    ELSE Fail("AttributeError", D)

\* The transforms of the other classes: fExpr.inverse_fourier, Vconst.time
\* and Iconst.time; a method no class defines ends in Expr.__getattr__.
OtherTransform(kind, v, D) ==
    IF kind = "inverse_fourier" /\ IsSubclass(v.cls, "fExpr") THEN FInverseFourier(v.cls, v.p, D)
    ELSE IF kind = "time" /\ v.cls \in CClasses THEN Pend(LaplaceConj[v.cls], v.p, EmptyDict, D)
    ELSE Fail("AttributeError", D)

TransformKinds ==
    {"laplace", "inverse_laplace", "fourier", "inverse_fourier", "phasor", "time",
     "jomega", "frequency_response"}

\* v.kind() by the class of v.
TransformOf(kind, v, D, w) ==
    IF IsSubclass(v.cls, "sExpr") THEN STransform(kind, v, D, w)
    ELSE IF IsSubclass(v.cls, "tExpr") THEN TTransform(kind, v, D, w)
    ELSE IF IsSubclass(v.cls, "Phasor") THEN PTransform(kind, v, D)
    ELSE IF IsSubclass(v.cls, "omegaExpr") THEN WTransform(kind, v, D)
    ELSE OtherTransform(kind, v, D)

\* The end of r = g.kind() whose transform gave t.
Transformed(g, kind, t) ==
    IF t.err # "none"
    THEN /\ last' = Call(kind, g, "-", t.err, <<>>, "-", dicts)
         /\ NoResult(t.D, TRUE)
    ELSE IF t.cls = "int"
    THEN /\ last' = Call(kind, g, "-", "none", <<>>, "-", dicts)
         /\ vals' = [vals EXCEPT !["r"] = Number(t.p)]
         /\ dicts' = Collect(t.D, vals')
    ELSE Returned(kind, g, "-", t.cls, t.p, ExprInit(t.cls, Raw(t.p), t.kw, t.D))

\* r = a.kind() right after a is built, and r = r.kind() right after that
\* (the way back).  w is the frequency of the sinusoid a phasor is made of.
Transform(g, kind, w) ==
    /\ IsExpr(vals[g]) /\ vals["b"] = NoVal
    /\ IF g = "a" THEN vals["r"] = NoVal /\ last.op = "new"
       ELSE last.op \in TransformKinds /\ last.l = "a" /\ last.err = "none"
    /\ vals[g].cls = "Expr" \/ vals[g].p.fv \subseteq {VarOf(vals[g].cls)}
    /\ w # "1" => kind = "phasor" /\ ~IsSubclass(vals[g].cls, "Phasor")
    /\ Transformed(g, kind, TransformOf(kind, vals[g], dicts, w))

(***************************************************************************)
(* Superpositions: Super, Vsuper, Isuper                                   *)
(***************************************************************************)
\* The largest amount the inputs give a component, and the number of calls
\* made on one superposition.
MaxAmp == 2
MaxCalls == 3

SuperClasses == {"Vsuper", "Isuper"}

\* transform_domains and type_map of Vsuper and Isuper.
TransformDomains ==
    [scls \in SuperClasses |->
       IF scls = "Vsuper" THEN [s |-> "Vs", ac |-> "Vphasor", dc |-> "Vconst", n |-> "Vn"]
       ELSE [s |-> "Is", ac |-> "Iphasor", dc |-> "Iconst", n |-> "In"]]

TypeMap ==
    [scls \in SuperClasses |->
       IF scls = "Vsuper"
       THEN [cExpr |-> "Vconst", sExpr |-> "Vs", noiseExpr |-> "Vn", omegaExpr |-> "Vphasor"]
       ELSE [cExpr |-> "Iconst", sExpr |-> "Is", noiseExpr |-> "In", omegaExpr |-> "Iphasor"]]

\* time_class
TimeClass ==
    [scls \in SuperClasses |-> IF scls = "Vsuper" THEN "Vt" ELSE "It"]

\* The class __mul__ accepts and the class of the container it returns.
Immittance ==
    [scls \in SuperClasses |-> IF scls = "Vsuper" THEN "Ys" ELSE "Zs"]

Other ==
    [scls \in SuperClasses |-> IF scls = "Vsuper" THEN "Isuper" ELSE "Vsuper"]

\* A value held by or handed to a superposition.  Its payload is the
\* amount re + j im of a fixed nonzero function of its domain variable;
\* root says that the amount is the square root of re (with the sign of
\* re), as the noise sum leaves it; at names the frequency an immittance
\* factor of the payload has been evaluated at ("0", a frequency, "omega"
\* for the symbol, "s" for the factor itself; "none" without a factor); d
\* is its assumptions dictionary.
Comp(cls, re, im, d) ==
    [cls |-> cls, re |-> re, im |-> im, root |-> FALSE, at |-> "none", d |-> d]

\* value == 0 left out: no value counts as zero.
CompZeroNever(c) ==
    FALSE

\* value == 0
CompZero(c) ==
    c.re = 0 /\ c.im = 0

\* The payload of an amount.
AmountP(re, im) ==
    IF re = 0 /\ im = 0 THEN PZero ELSE POne

\* A component as an operand of the compatibility rules, in heap slot i,
\* and the heap that holds dictionary d in slot 1 and e in slot 2.
AsVal(c, i) ==
    Val(c.cls, AmountP(c.re, c.im), i, "none")

Heap2(d, e) ==
    [i \in Slots |-> IF i = 1 THEN d ELSE IF i = 2 THEN e ELSE EmptyDict]

\* cls(re + j im, **kw)
NewComp(cls, re, im, kw) ==
    Comp(cls, re, im, ExprInit(cls, Raw(AmountP(re, im)), kw, Heap2(EmptyDict, EmptyDict)).d)

\* The outcome of a step on a superposition: the exception ("none" if it
\* returned), the mapping afterwards, and of the last value it got to:
\* the key of self it was made from and the dictionary that making it
\* left to the entry under that key (d1).
Done(S) ==
    [err |-> "none", S |-> S, key |-> "none", d1 |-> EmptyDict]

Raise(err, S) ==
    [err |-> err, S |-> S, key |-> "none", d1 |-> EmptyDict]

\* A value on its way into a superposition: the exception of the
\* expression that makes it ("none" if it was made), the value, and key
\* and d1 as above.
Item(c) ==
    [err |-> "none", c |-> c, key |-> "none", d1 |-> EmptyDict]

\* Expr.omega of a component.
CompOmega(c) ==
    IF Has(c.d, "omega") THEN c.d["omega"] ELSE "omega"

\* Super._kind with a value of no kind taken as dc.
KindOrDc(scls, c) ==
    IF IsSubclass(c.cls, "Phasor") THEN CompOmega(c)
    ELSE IF \E k \in {"s", "ac", "dc", "n"} : IsSubclass(c.cls, TransformDomains[scls][k])
    THEN CHOOSE k \in {"s", "ac", "dc", "n"} : IsSubclass(c.cls, TransformDomains[scls][k])
    ELSE "dc"

\* Super._kind
Kind(scls, c) ==
    IF IsSubclass(c.cls, "Phasor") THEN CompOmega(c)
    ELSE IF \E k \in {"s", "ac", "dc", "n"} : IsSubclass(c.cls, TransformDomains[scls][k])
    THEN CHOOSE k \in {"s", "ac", "dc", "n"} : IsSubclass(c.cls, TransformDomains[scls][k])
    ELSE "none"

\* The class add converts a value without a kind to: the entry of
\* type_map for its class, else for the first key of type_map it is an
\* instance of, else none (its own class).  A noise class is an instance
\* of two keys, noiseExpr and omegaExpr: first is the one the dictionary
\* yields first.
Mapped(scls, cls, first) ==
    IF cls \in DOMAIN TypeMap[scls] THEN TypeMap[scls][cls]
    ELSE IF IsSubclass(cls, "noiseExpr") THEN TypeMap[scls][first]
    ELSE IF \E k \in DOMAIN TypeMap[scls] : IsSubclass(cls, k)
    THEN TypeMap[scls][CHOOSE k \in DOMAIN TypeMap[scls] : IsSubclass(cls, k)]
    ELSE cls

\* value = cls2(value), when type_map has a class cls2 for it.
Wrap(c, cls2) ==
    IF cls2 = c.cls THEN c
    ELSE [c EXCEPT !.cls = cls2,
                   !.d = ExprInit(cls2, AsVal(c, 1), EmptyDict, Heap2(c.d, c.d)).d]

\* The value add files: value itself when it has a kind, else converted
\* through type_map.
Classified(scls, c, first) ==
    IF Kind(scls, c) # "none" THEN c ELSE Wrap(c, Mapped(scls, c.cls, first))

\* The square of an amount, and the amount whose square is q.
Sq(c) ==
    IF c.root THEN c.re ELSE c.re * c.re

Isqrt(q) ==
    CHOOSE k \in 0..q : k * k <= q /\ (k + 1) * (k + 1) > q

\* sqrt(q) as a value of class cls, where k is the integer part of it.
Rooted(cls, q, k) ==
    [cls |-> cls, re |-> IF k * k = q THEN k ELSE q, im |-> 0, root |-> k * k # q,
     at |-> "none", d |-> ImplicitKw(cls, EmptyDict)]

Root(cls, q) ==
    Rooted(cls, q, Isqrt(q))

\* The noise entry with the sum taken directly.
NoiseSumDirect(S, v) ==
    IF "n" \notin DOMAIN S THEN Put(S, "n", v)
    ELSE Put(S, "n", [v EXCEPT !.re = S["n"].re + v.re])

\* if kind == 'n': the entry is the root of the sum of the squares.
NoiseSum(S, v) ==
    IF "n" \notin DOMAIN S THEN Put(S, "n", Root(v.cls, Sq(v)))
    ELSE Put(S, "n", Root(S["n"].cls, Sq(S["n"]) + Sq(v)))

\* self[kind] += value, where __compat_add__ gave c.
Merge(S, kind, v, c) ==
    IF c.err # "none" THEN Raise(c.err, S)
    ELSE Done(Put(S, kind,
                  [S[kind] EXCEPT
                     !.cls = c.cls, !.re = S[kind].re + v.re, !.im = S[kind].im + v.im,
                     !.d = ExprInit(c.cls, Raw(AmountP(S[kind].re + v.re, S[kind].im + v.im)),
                                    c.asm, c.D).d]))

\* The end of add: value v of kind kind goes into the mapping S.
AddKind(S, kind, v) ==
    IF kind = "none" THEN Raise("CannotHandle", S)
    ELSE IF kind = "n" THEN Done(NoiseSum(S, v))
    ELSE IF kind \notin DOMAIN S THEN Done(Put(S, kind, v))
    ELSE Merge(S, kind, v, CompatAdd(AsVal(S[kind], 1), AsVal(v, 2), Heap2(S[kind].d, v.d)))

\* add(value) once value has been classified as c.
AddClassified(S, scls, c) ==
    AddKind(S, Kind(scls, c), c)

\* add(value) for a value that is an Expr and not a tExpr.
AddValue(S, scls, v, first) ==
    IF CompZero(v) THEN Done(S) ELSE AddClassified(S, scls, Classified(scls, v, first))

\* The next value is made and added.
AddItem(r, scls, item, first) ==
    [(IF item.err # "none" THEN Raise(item.err, r.S)
      ELSE AddValue(r.S, scls, item.c, first))
       EXCEPT !.key = item.key, !.d1 = item.d1]

\* self.add(v) for each of the items in turn, until one raises.
RECURSIVE AddAll(_, _, _, _)
AddAll(r, scls, items, first) ==
    IF r.err # "none" \/ items = <<>> THEN r
    ELSE AddAll(AddItem(r, scls, Head(items), first), scls, Tail(items), first)

\* A time signal: dc + the sinusoids ac[w][1] cos(w t) + ac[w][2] sin(w t)
\* + tr times a causal transient; half says that it is known for t >= 0
\* only.
Signal(cls, dc, ac, tr) ==
    [cls |-> cls, dc |-> dc, ac |-> ac, tr |-> tr, half |-> FALSE]

\* lcapy.acdc's ACChecker on a cos(w t) + b sin(w t) = A cos(w t + phase):
\* amp * exp(j * phase), which is a - j b.
CheckedPhasor(q) ==
    <<q[1], 0 - q[2]>>

\* tExpr(term).phasor() for the sinusoid of x at w.
SignalPhasor(x, w) ==
    NewComp("Phasor", CheckedPhasor(x.ac[w])[1], CheckedPhasor(x.ac[w])[2],
            Put(EmptyDict, "omega", w))

\* value.laplace() for the rest of x, a causal transient.
SignalLaplace(x) ==
    NewComp(LaplaceConj[x.cls], x.tr, 0,
            InferT(ImplicitKw(x.cls, EmptyDict), PVar("t", "causal")))

\* Super._decompose: the values it adds, in turn: the dc term as a cExpr,
\* the sinusoid as a phasor, the Laplace transform of the rest.
Decompose(x) ==
    (IF x.dc = 0 THEN <<>> ELSE <<Item(NewComp("cExpr", x.dc, 0, EmptyDict))>>)
        \o (IF DOMAIN x.ac = {} THEN <<>>
            ELSE <<Item(SignalPhasor(x, CHOOSE w \in DOMAIN x.ac : TRUE))>>)
        \o (IF x.tr = 0 THEN <<>> ELSE <<Item(SignalLaplace(x))>>)

\* Super._parse: the class a string with the symbols syms is read as.
ParseClass(syms) ==
    IF "s" \in syms THEN "sExpr"
    ELSE IF "omega" \in syms THEN (IF "t" \in syms THEN "tExpr" ELSE "omegaExpr")
    ELSE IF "f" \in syms THEN "fExpr"
    ELSE "tExpr"

\* The values add(arg) files.  arg is a plain number (type "int"), a
\* string ("str", with the domain symbols it holds), a time-domain value
\* ("sig") or another Expr ("val").
AddItems(scls, arg) ==
    IF arg.type = "int"
    THEN <<Item(NewComp(TransformDomains[scls]["dc"], arg.re, 0, EmptyDict))>>
    ELSE IF arg.type = "str" THEN <<Item(NewComp(ParseClass(arg.syms), 1, 0, EmptyDict))>>
    ELSE IF arg.type = "sig" THEN Decompose(arg.x)
    ELSE <<Item(arg.c)>>

\* Super.add(arg)
SuperAdd(S, scls, arg, first) ==
    AddAll(Done(S), scls, AddItems(scls, arg), first)

\* Expr.__neg__ of a component.
CompNeg(c) ==
    [c EXCEPT !.re = 0 - c.re, !.im = 0 - c.im,
              !.d = ExprInit(c.cls, Raw(AmountP(c.re, c.im)), c.d, Heap2(c.d, c.d)).d]

\* c * f, where __compat_mul__ gave m.  k is f when f is a plain number;
\* otherwise k is 1 and w names the frequency that f, an immittance, is
\* evaluated at.
Multiply(c, k, w, m) ==
    [err |-> m.err, key |-> "none",
     c |-> [c EXCEPT !.cls = m.cls,
                     !.re = IF c.root THEN c.re * k * (IF k < 0 THEN 0 - k ELSE k)
                            ELSE c.re * k,
                     !.im = c.im * k,
                     !.at = w,
                     !.d = ExprInit(m.cls, Raw(AmountP(c.re * k, c.im * k)), m.asm, m.D).d],
     d1 |-> m.D[1]]

\* Expr.__mul__(c, f)
Product(c, f, k, w) ==
    Multiply(c, k, w, CompatMul(AsVal(c, 1), f, Heap2(c.d, EmptyDict)))

\* Super.__neg__ with the noise entry negated like the others.
SuperNegAll(S) ==
    [kind \in DOMAIN S |-> CompNeg(S[kind])]

\* Super.__neg__: the mapping of the new container.
SuperNeg(S) ==
    [kind \in DOMAIN S |-> IF kind # "n" THEN CompNeg(S[kind]) ELSE S[kind]]

\* Super.__scale__: the mapping of the new container.
SuperScale(S, k) ==
    [kind \in DOMAIN S |-> Product(S[kind], Number(AmountP(k, 0)), k, "none").c]

\* Super.ac_keys
AcKeys(S) ==
    DOMAIN S \ {"dc", "s", "n"}

\* The keys of a mapping apart from 'dc' in the order __mul__ goes through
\* them: the ac keys, 'n', 's'.
KeyOrder ==
    <<"omega">> \o [i \in 1..MaxOmega |-> ToString(i)] \o <<"n", "s">>

RECURSIVE KeysOf(_, _)
KeysOf(keys, S) ==
    IF keys = <<>> THEN <<>>
    ELSE (IF Head(keys) \in DOMAIN S THEN <<Head(keys)>> ELSE <<>>) \o KeysOf(Tail(keys), S)

\* The factor of the product for the entry c under key: x itself for 's';
\* for an ac key x.jomega (SubsOmega) with the number self[key].omega put
\* for omega, or with the symbol omega, an omegaExpr, put for it.
FactorFor(c, key, x) ==
    IF key = "s" THEN Val(x.cls, PVar("s", "dc"), 2, "none")
    ELSE Val(IF CompOmega(c) = "omega" THEN "omegaExpr" ELSE SubsOmega[x.cls], POne, 2, "none")

\* self[key] * x.jomega(self[key].omega) and self['s'] * x.  For 'n' the
\* code multiplies by x.jomega, the method itself, which the constructor
\* cannot make an expression of.
MulItem(c, key, x) ==
    IF key = "n" THEN [err |-> "SympifyError", c |-> c, key |-> key, d1 |-> c.d]
    ELSE [Product(c, FactorFor(c, key, x), 1, IF key = "s" THEN "s" ELSE CompOmega(c))
            EXCEPT !.key = key]

\* The values __mul__ adds to the new container, in turn.  The first is
\* Iconst(self['dc'] * cExpr(x.jomega(0))) (Vconst for an Isuper).
MulItems(S, scls, x, keys) ==
    (IF "dc" \notin DOMAIN S THEN <<>>
     ELSE <<Item([NewComp(TransformDomains[Other[scls]]["dc"], S["dc"].re * x.n0, 0, EmptyDict)
                    EXCEPT !.at = "0"])>>)
        \o [i \in 1..Len(keys) |-> MulItem(S[keys[i]], keys[i], x)]

\* What __mul__ multiplies by, given x: x, or the TypeError.
MulFactor(scls, x) ==
    IF x.type = "val" /\ x.cls # Immittance[scls] THEN [type |-> "err", err |-> "TypeError"]
    ELSE x

\* What __div__ multiplies by, given x: 1 / x, which is x for the numbers
\* 1 and -1, and the immittance of the other class otherwise.
DivFactor(scls, x) ==
    IF x.type = "int"
    THEN (IF x.re = 0 THEN [type |-> "err", err |-> "ZeroDivisionError"] ELSE x)
    ELSE IF x.cls # Immittance[Other[scls]] THEN [type |-> "err", err |-> "TypeError"]
    ELSE [x EXCEPT !.cls = Immittance[scls], !.n0 = x.d0, !.d0 = x.n0]

\* Vsuper.__mul__, Isuper.__mul__ by the factor y: err and the mapping S
\* of the new container.
SuperMul(S, scls, y) ==
    IF y.type = "err" THEN Raise(y.err, EmptyDict)
    ELSE IF y.type = "int" THEN Done(SuperScale(S, y.re))
    ELSE AddAll(Done(EmptyDict), Other[scls], MulItems(S, scls, y, KeysOf(KeyOrder, S)),
                "noiseExpr")

\* The mapping of self after self * x gave r: a product self[key] * f
\* reads the assumptions of self[key], which fills them in.
SelfAfterMul(S, r) ==
    IF r.key \in DOMAIN S THEN [S EXCEPT ![r.key].d = r.d1] ELSE S

\* The class of val.time() for an entry ("int" for the 0 of noise).
EntryTimeClass(c) ==
    IF IsSubclass(c.cls, "noiseExpr") THEN "int"
    ELSE IF LaplaceConj[c.cls] = "none" THEN "tExpr"
    ELSE LaplaceConj[c.cls]

\* The sum of field f over the entries of S under keys.
RECURSIVE SumOf(_, _, _)
SumOf(S, keys, f) ==
    IF keys = {} THEN 0
    ELSE LET k == CHOOSE q \in keys : TRUE
         IN  (IF f = "re" THEN S[k].re ELSE S[k].im) + SumOf(S, keys \ {k}, f)

\* Phasor.time() summed over the ac entries: re cos(w t) + im sin(w t),
\* with w the omega of each entry.
TimeAc(S) ==
    [w \in {CompOmega(S[k]) : k \in AcKeys(S)} |->
       <<SumOf(S, {k \in AcKeys(S) : CompOmega(S[k]) = w}, "re"),
         SumOf(S, {k \in AcKeys(S) : CompOmega(S[k]) = w}, "im")>>]

\* Super.time(): err, or the signal x that is the sum of the entries in the
\* time domain.  The 's' entry is inverted with its own assumptions.
SuperTime(S, scls) ==
    IF \E k \in DOMAIN S :
          CompatAdd(Val(TimeClass[scls], POne, 1, "none"),
                    IF EntryTimeClass(S[k]) = "int" THEN Number(PZero)
                    ELSE Val(EntryTimeClass(S[k]), POne, 2, "none"),
                    Heap2(EmptyDict, EmptyDict)).err # "none"
    THEN [err |-> "CannotCombine", x |-> Signal(TimeClass[scls], 0, EmptyDict, 0)]
    ELSE [err |-> "none",
          x |-> [cls |-> TimeClass[scls],
                 dc |-> IF "dc" \in DOMAIN S THEN S["dc"].re ELSE 0,
                 ac |-> TimeAc(S),
                 tr |-> IF "s" \in DOMAIN S THEN S["s"].re ELSE 0,
                 half |-> "s" \in DOMAIN S /\ ~Asserts(S["s"].d, "causal")
                             /\ ~Asserts(S["s"].d, "dc") /\ ~Asserts(S["s"].d, "ac")]]

\* The keyword arguments given to discrete_time_fourier_transform.
FourierKwInputs ==
    {EmptyDict, Put(EmptyDict, "causal", "True"), Put(EmptyDict, "causal", "False"),
     Put(EmptyDict, "dc", "True")}

\* Assumptions.infer_from_expr_and_merge: what the payload shows as a
\* function of n, with the keyword arguments of the call put over it; an
\* asserted dc, ac or causal takes the place of the other two.
InferFromExprAndMerge(p, kw) ==
    IF \E k \in {"dc", "ac", "causal"} : Asserts(kw, k) THEN kw
    ELSE [k \in ({p.sig} \cap {"dc", "ac", "causal"}) \cup DOMAIN kw |->
            IF k \in DOMAIN kw THEN kw[k] ELSE "True"]

\* The result of the transform of payload p: f takes the place of n.
FourierOfSequence(p) ==
    IF p.zero THEN PZero
    ELSE Payload(FALSE, (p.fv \ {"n"}) \cup {"f"}, "other")

\* The transform decided on the assumptions of the value as built.
DiscreteTimeFourierTransformAsBuilt(p, kw) ==
    [route |-> IF p.sig = "causal" THEN "ZT" ELSE "summation", p |-> FourierOfSequence(p)]

\* discrete_time_fourier_transform(**kw) of a value with payload p: the
\* route taken, self.ZT(**assumptions).DTFT() ("ZT") or the sum over all n
\* ("summation"), and the payload of the result.
DiscreteTimeFourierTransform(p, kw) ==
    [route |-> IF Asserts(InferFromExprAndMerge(p, kw), "causal") THEN "ZT" ELSE "summation",
     p |-> FourierOfSequence(p)]

\* r = a.DTFT(**kw) for a sequence a in n, where the transform gave t.
\* The summation route ends in fexpr(...), whose constructor checks the
\* result.
Fouriered(kw, t) ==
    /\ last' = Call("dtft", "a", kw, "none", <<>>, t.route, dicts)
    /\ vals' = [vals EXCEPT !["r"] = Val("FourierDomainExpression", t.p, 0, "none")]
    /\ dicts' = dicts

DTFT(kw) ==
    /\ vals["a"].cls = "DiscreteTimeDomainExpression"
    /\ vals["a"].p.fv \subseteq {"n"}
    /\ vals["r"] = NoVal
    /\ Fouriered(kw, DiscreteTimeFourierTransform(vals["a"].p, kw))

(***************************************************************************)
(* The calls on the contexts                                               *)
(***************************************************************************)
\* A program that works with contexts builds no values.
NoValues ==
    vals["a"] = NoVal

\* The end of a call on the contexts.
ContextCalled(op, c, err, n, open, closed) ==
    /\ ccall.n < MaxContextCalls
    /\ ccall' = ContextCall(op, c, err, n + 1, open, closed, contexts, global_assumptions)
    /\ UNCHANGED <<vals, dicts, last, svars>>

\* parent.new(): the new context is the next free identity.
ContextNew(parent) ==
    /\ Cardinality(DOMAIN contexts) <= MaxContexts
    /\ contexts' = Put(contexts, Cardinality(DOMAIN contexts),
                       NewContext(contexts[parent].symbols, contexts[parent].assumptions))
    /\ UNCHANGED <<context, global_assumptions>>
    /\ ContextCalled("new", parent, "none", ccall.n, ccall.open, NoFrame)

\* c.switch()
ContextSwitch(c) ==
    /\ contexts' = [contexts EXCEPT ![c].previous = context]
    /\ context' = c
    /\ global_assumptions' = DOMAIN contexts[c].assumptions
    /\ ContextCalled("switch", c, "none", ccall.n,
                     <<Frame(c, context, global_assumptions)>> \o ccall.open, NoFrame)

\* c.restore(), where self.assumptions.update(global_assumptions) gave u.
\* It answers the last open switch when that was c.switch().
Restored(c, u, paired) ==
    /\ contexts' = [contexts EXCEPT ![c].assumptions = u.d]
    /\ context' = context
    /\ global_assumptions' =
          IF u.err # "none" THEN global_assumptions
          ELSE DOMAIN contexts'[contexts[c].previous].assumptions
    /\ ContextCalled("restore", c, u.err, ccall.n,
                     IF paired THEN Tail(ccall.open) ELSE ccall.open,
                     IF paired THEN Head(ccall.open) ELSE NoFrame)

ContextRestore(c) ==
    /\ IF contexts[c].previous = NoContext
       THEN /\ UNCHANGED <<contexts, context, global_assumptions>>
            /\ ContextCalled("restore", c, "none", ccall.n, ccall.open, NoFrame)
       ELSE Restored(c, DictUpdate(contexts[c].assumptions, global_assumptions),
                     ccall.open # <<>> /\ Head(ccall.open).c = c)

\* global_assumptions.add(fact) and global_assumptions.remove(fact)
Assume(fact) ==
    /\ fact \notin global_assumptions
    /\ global_assumptions' = global_assumptions \cup {fact}
    /\ UNCHANGED <<contexts, context>>
    /\ ContextCalled("assume", context, "none", ccall.n, ccall.open, NoFrame)

Retract(fact) ==
    /\ fact \in global_assumptions
    /\ global_assumptions' = global_assumptions \ {fact}
    /\ UNCHANGED <<contexts, context>>
    /\ ContextCalled("retract", context, "none", ccall.n, ccall.open, NoFrame)

\* symbol(name, **assumptions): sympify1 binds the name in context.symbols,
\* whether or not the name is bound there already.
DefineSymbol(b) ==
    /\ ~(b[1] \in DOMAIN contexts[context].symbols /\ contexts[context].symbols[b[1]] = b[2])
    /\ contexts' = [contexts EXCEPT ![context].symbols = Put(@, b[1], b[2])]
    /\ UNCHANGED <<context, global_assumptions>>
    /\ ContextCalled("symbol", context, "none", ccall.n, ccall.open, NoFrame)

(***************************************************************************)
(* The newer modules: fexpr.py and nexpr.py                                *)
(***************************************************************************)
NewClasses == {"FourierDomainExpression", "DiscreteTimeDomainExpression"}

\* Payloads for the newer classes.  Besides the domain symbols f, s, t and
\* the discrete ones n, k, z, fv records the heads Integral and Sum of an
\* unevaluated integral or sum, which the checks ask for with expr.has.
NewPayloadInputs ==
    {PZero, POne, PVar("f", "dc"), PVar("s", "dc"), PVar("t", "other"),
     Payload(FALSE, {"f", "t", "Integral"}, "other"),
     PVar("n", "other"), PVar("n", "causal"), PVar("z", "other"), PVar("k", "other"),
     Payload(FALSE, {"n", "k", "Sum"}, "other")}

\* FourierDomainExpression.__init__: the check after the base constructor
\* raises when check is set, expr holds s or t and has no Integral.
FourierInitRaises(p, check) ==
    check /\ p.fv \cap {"s", "t"} # {} /\ "Integral" \notin p.fv

\* DiscreteTimeDomainExpression.__init__: raises when check is set, expr
\* holds z or k and has no Sum.
DiscreteTimeInitRaises(p, check) ==
    check /\ p.fv \cap {"z", "k"} # {} /\ "Sum" \notin p.fv

\* a = cls(payload, check=check) for a class of the newer modules.  The
\* call record keeps the check flag in res.
ConstructDomain(cls, p, check) ==
    LET raises == IF cls = "FourierDomainExpression" THEN FourierInitRaises(p, check)
                  ELSE DiscreteTimeInitRaises(p, check)
    IN  /\ vals["a"] = NoVal
        /\ last' = Call("new", "a", cls, IF raises THEN "CannotDependOn" ELSE "none", <<>>,
                        IF check THEN "check" ELSE "nocheck", dicts)
        /\ vals' = IF raises THEN vals ELSE [vals EXCEPT !["a"] = Val(cls, p, 0, "none")]
        /\ dicts' = dicts

(***************************************************************************)
(* The calls on a superposition                                            *)
(***************************************************************************)
\* What add is called with.
AddClasses ==
    {"Expr", "cExpr", "sExpr", "omegaExpr", "fExpr", "Vconst", "Iconst", "Vs", "Is",
     "Vomega", "Vf"}

SignalInputs ==
    {Signal(cls, dc, ac, tr) :
       cls \in {"tExpr", "Vt"}, dc \in 0..1, tr \in 0..1,
       ac \in {EmptyDict} \cup {Put(EmptyDict, w, q) : w \in OmegaNames,
                                                        q \in {<<1, 0>>, <<0, 1>>}}}

AddInputs ==
    {[type |-> "int", re |-> m] : m \in -1..MaxAmp}
        \cup {[type |-> "str", syms |-> q] : q \in {{"s"}, {"omega"}, {"f"}}}
        \cup {[type |-> "sig", x |-> x] : x \in SignalInputs}
        \cup {[type |-> "val", c |-> NewComp(cls, m, 0, EmptyDict)] :
                cls \in AddClasses, m \in 0..1}
        \cup {[type |-> "val", c |-> NewComp(cls, m, 0, EmptyDict)] :
                cls \in {"Vn", "In"}, m \in 1..MaxAmp}
        \cup {[type |-> "val", c |-> NewComp(cls, m, 0, kw)] :
                cls \in {"Vphasor", "Iphasor"}, m \in -1..1, kw \in KwOmega}

\* What a superposition is multiplied and divided by: plain numbers, and
\* immittances given by their class and their value n0 / d0 at s = 0.
Factors ==
    {[type |-> "int", re |-> k] : k \in {-1, 0, MaxAmp}}
        \cup {[type |-> "val", cls |-> cls, n0 |-> n0, d0 |-> 1] :
                cls \in {"Ys", "Zs"}, n0 \in 0..1}

Divisors ==
    {[type |-> "int", re |-> k] : k \in {-1, 0, 1}}
        \cup {[type |-> "val", cls |-> cls, n0 |-> 1, d0 |-> d0] :
                cls \in {"Ys", "Zs"}, d0 \in 0..1}

Operands ==
    [op \in {"mul", "div"} |-> IF op = "mul" THEN Factors ELSE Divisors]

NoArg == [type |-> "none"]
NoOut == [cls |-> "nil", S |-> EmptyDict, x |-> EmptyDict]

\* A superposition exists and no call on it has returned a new value yet.
IsSuper ==
    /\ vals["a"].cls \in SuperClasses
    /\ scall.op \in {"new", "add"}
    /\ scall.n < MaxCalls

\* The end of a call on the superposition: it raised err or returned o,
\* and the mapping of the superposition is S afterwards.
Called(op, arg, err, S, o) ==
    /\ scall' = [op |-> op, n |-> scall.n + 1, arg |-> arg, err |-> err, pre |-> sup]
    /\ sup' = S
    /\ out' = IF err = "none" THEN o ELSE NoOut
    /\ UNCHANGED <<vals, dicts, last, cvars>>

\* a = Vsuper() or a = Isuper()
NewSuper(scls) ==
    /\ last.op = "init"
    /\ vals' = [vals EXCEPT !["a"] = Val(scls, PZero, 0, "none")]
    /\ scall' = [scall EXCEPT !.op = "new"]
    /\ UNCHANGED <<dicts, last, sup, out, cvars>>

\* -arg, for a plain number and for a value.
Negated(arg) ==
    IF arg.type = "int" THEN [arg EXCEPT !.re = 0 - arg.re]
    ELSE [arg EXCEPT !.c = CompNeg(arg.c)]

\* a.add(arg), a + arg and a - arg, where add gave r: add works on a
\* itself, __add__ on a copy that it returns, and __sub__ is -arg + a.
Added(op, arg, r) ==
    Called(op, arg, r.err, IF op = "add" THEN r.S ELSE sup,
           IF op = "add" THEN NoOut ELSE [cls |-> vals["a"].cls, S |-> r.S, x |-> EmptyDict])

Add(op, arg, first) ==
    /\ first = "omegaExpr" => arg.type = "val" /\ IsSubclass(arg.c.cls, "noiseExpr")
    /\ op # "add" => arg.type \in {"int", "val"}
    /\ Added(op, arg, SuperAdd(sup, vals["a"].cls,
                               IF op = "minus" THEN Negated(arg) ELSE arg, first))

\* -a
Neg ==
    Called("neg", NoArg, "none", sup, [cls |-> vals["a"].cls, S |-> SuperNeg(sup), x |-> EmptyDict])

\* a * x and a / x, where __mul__ or __div__ gave r
Multiplied(op, x, r) ==
    Called(op, x, r.err, SelfAfterMul(sup, r),
           [cls |-> IF x.type = "int" THEN vals["a"].cls ELSE Other[vals["a"].cls],
            S |-> r.S, x |-> EmptyDict])

MulDiv(op, x) ==
    Multiplied(op, x, SuperMul(sup, vals["a"].cls,
                               IF op = "mul" THEN MulFactor(vals["a"].cls, x)
                               ELSE DivFactor(vals["a"].cls, x)))

\* a.time(), where time gave r
Timed(r) ==
    Called("time", NoArg, r.err, sup, [cls |-> r.x.cls, S |-> EmptyDict, x |-> r.x])

Time ==
    Timed(SuperTime(sup, vals["a"].cls))

\* The phases of the explored programs: no operand yet, one operand and
\* no second one, both operands built (Ready).
NoOperand ==
    vals["a"] = NoVal /\ ccall.op = "init"

OneOperand ==
    IsExpr(vals["a"]) /\ vals["b"] = NoVal

Next ==
    \/ NoOperand /\ \E cls \in Classes, p \in PayloadInputs :
          \E kw \in KwFor(cls) : ConstructA(cls, p, kw)
          /\ UNCHANGED <<svars, cvars>>
    \/ NoOperand /\ \E cls \in NewClasses, p \in NewPayloadInputs, check \in BOOLEAN :
          ConstructDomain(cls, p, check)
          /\ UNCHANGED <<svars, cvars>>
    \/ OneOperand /\ \E cls \in Classes, p \in {PZero, POne} :
          \E kw \in KwFor(cls) : ConstructB(cls, p, kw)
          /\ UNCHANGED <<svars, cvars>>
    \/ OneOperand /\ \E p \in {PZero, POne} : ConstructInt(p)
          /\ UNCHANGED <<svars, cvars>>
    \/ OneOperand /\ \E cls \in Classes : Convert(cls)
          /\ UNCHANGED <<svars, cvars>>
    \/ OneOperand /\ \E g \in {"a", "r"}, key \in Keys : Query(g, key)
          /\ UNCHANGED <<svars, cvars>>
    \/ Ready /\ \E op \in AddOps \cup MulOps, reflected \in BOOLEAN, cancel \in BOOLEAN :
          BinOp(op, reflected, cancel)
          /\ UNCHANGED <<svars, cvars>>
    \/ OneOperand /\ \E op \in CmpOps : CompareNone(op)
          /\ UNCHANGED <<svars, cvars>>
    \/ Ready /\ \E op \in CmpOps, eq \in BOOLEAN : Compare(op, eq)
          /\ UNCHANGED <<svars, cvars>>
    \/ OneOperand /\ Magnitude
          /\ UNCHANGED <<svars, cvars>>
    \/ OneOperand /\ \E witharg \in BOOLEAN : Evaluate(witharg)
          /\ UNCHANGED <<svars, cvars>>
    \/ OneOperand /\ \E g \in {"a", "r"}, kind \in TransformKinds, w \in OmegaNames :
          Transform(g, kind, w)
          /\ UNCHANGED <<svars, cvars>>
    \/ \E kw \in FourierKwInputs : DTFT(kw)
          /\ UNCHANGED <<svars, cvars>>
    \/ NoOperand /\ \E scls \in SuperClasses : NewSuper(scls)
    \/ IsSuper /\ \E op \in {"add", "plus", "minus"}, arg \in AddInputs,
                      first \in {"noiseExpr", "omegaExpr"} : Add(op, arg, first)
    \/ IsSuper /\ Neg
    \/ IsSuper /\ \E op \in {"mul", "div"} : \E x \in Operands[op] : MulDiv(op, x)
    \/ IsSuper /\ Time
    \/ NoValues /\ \E parent \in DOMAIN contexts : ContextNew(parent)
    \/ NoValues /\ \E c \in DOMAIN contexts : ContextSwitch(c)
    \/ NoValues /\ \E c \in DOMAIN contexts : ContextRestore(c)
    \/ NoValues /\ \E fact \in Facts : Assume(fact)
    \/ NoValues /\ \E fact \in Facts : Retract(fact)
    \/ NoValues /\ \E b \in SymbolInputs : DefineSymbol(b)

Spec == Init /\ [][Next]_vars

(***************************************************************************)
(* Vocabulary of the properties                                            *)
(***************************************************************************)
\* The electrical role a class name encodes.
RoleOf(cls) ==
    IF cls \in {"Vs", "Vt", "Vf", "Vomega", "Vconst", "Vphasor", "Vn"} THEN "V"
    ELSE IF cls \in {"Is", "It", "If", "Iomega", "Iconst", "Iphasor", "In"} THEN "I"
    ELSE IF cls \in {"Ys", "Yt", "Yf", "Yomega"} THEN "Y"
    ELSE IF cls \in {"Zs", "Zt", "Zf", "Zomega"} THEN "Z"
    ELSE IF cls \in {"Hs", "Ht", "Hf", "Homega"} THEN "H"
    ELSE "none"

\* The domain a class belongs to, by its base class.
DomainOf(cls) ==
    IF IsSubclass(cls, "sExpr") THEN "s"
    ELSE IF IsSubclass(cls, "tExpr") THEN "t"
    ELSE IF IsSubclass(cls, "fExpr") THEN "f"
    ELSE IF IsSubclass(cls, "omegaExpr") THEN "omega"
    ELSE IF IsSubclass(cls, "Phasor") THEN "phasor"
    ELSE IF IsSubclass(cls, "cExpr") THEN "const"
    ELSE "none"

OpA == vals["a"]
OpB == vals["b"]
Res == vals["r"]

\* The last call was a binary operation of ops on a and b.
BinaryDone(ops) ==
    last.op \in ops /\ last.l \in {"a", "b"} /\ last.r \in {"a", "b"}

Raised == last.err # "none"

\* Both operands are values of the same domain, one of doms.
SameDomain(doms) ==
    /\ IsExpr(OpB)
    /\ DomainOf(OpA.cls) = DomainOf(OpB.cls)
    /\ DomainOf(OpA.cls) \in doms

\* The operands are values of two different domains among doms.
CrossDomain(doms) ==
    /\ IsExpr(OpB)
    /\ DomainOf(OpA.cls) # DomainOf(OpB.cls)
    /\ {DomainOf(OpA.cls), DomainOf(OpB.cls)} \subseteq doms

\* The exception's message names the classes of both operands.
NamesBoth ==
    {OpA.cls, OpB.cls} \subseteq {last.names[i] : i \in DOMAIN last.names}

(***************************************************************************)
(* C1                                                                      *)
(***************************************************************************)
\* C1: adding or subtracting a voltage-typed and a current-typed value of
\* one domain (s, t, f, omega, constant, phasor), in either order, raises
\* and produces no result.
C1_VoltageCurrentSumRaises ==
    (/\ BinaryDone(AddOps)
     /\ SameDomain({"s", "t", "f", "omega", "const", "phasor"})
     /\ {RoleOf(OpA.cls), RoleOf(OpB.cls)} = {"V", "I"})
    => Raised /\ Res = NoVal

\* A voltage phasor and a current phasor of one angular frequency have
\* been added, and the sum is a value.
C1_PhasorSumReturned ==
    /\ BinaryDone({"+"})
    /\ OpA.cls = "Vphasor" /\ OpB.cls = "Iphasor"
    /\ ~Raised /\ Res.cls = "Vphasor"

(***************************************************************************)
(* C2                                                                      *)
(***************************************************************************)
\* C2: in the s, t, f and omega domains, voltage * admittance of one domain
\* is a current-typed value of that domain, and voltage / voltage is a
\* transfer-function-typed value of that domain.
C2_RolePromotion ==
    /\ (/\ BinaryDone({"*"})
        /\ SameDomain({"s", "t", "f", "omega"})
        /\ RoleOf(OpA.cls) = "V" /\ RoleOf(OpB.cls) = "Y")
       => /\ ~Raised
          /\ RoleOf(Res.cls) = "I" /\ DomainOf(Res.cls) = DomainOf(OpA.cls)
    /\ (/\ BinaryDone({"/"})
        /\ SameDomain({"s", "t", "f", "omega"})
        /\ RoleOf(OpA.cls) = "V" /\ RoleOf(OpB.cls) = "V")
       => /\ ~Raised
          /\ RoleOf(Res.cls) = "H" /\ DomainOf(Res.cls) = DomainOf(OpA.cls)

\* Vs * Ys has been computed and the product is a Vs.
C2_ProductKeepsLeftClass ==
    /\ BinaryDone({"*"})
    /\ OpA.cls = "Vs" /\ OpB.cls = "Ys"
    /\ ~Raised /\ Res.cls = "Vs"

(***************************************************************************)
(* C3                                                                      *)
(***************************************************************************)
\* The operands are an omega-domain and a t-domain value, in either order.
OmegaTimesT ==
    {DomainOf(OpA.cls), DomainOf(OpB.cls)} = {"omega", "t"}

TimeOperand ==
    IF DomainOf(OpA.cls) = "t" THEN OpA ELSE OpB

\* C3 as stated: * and / of two values of different domains (s, t, f,
\* omega, phasor) raise an error naming both operand classes; the only
\* pair that succeeds is an omega-domain with a t-domain value (either
\* order), and the result has the class of the t operand.
C3_CrossDomainProductRaises ==
    (BinaryDone(MulOps) /\ CrossDomain({"s", "t", "f", "omega", "phasor"}))
    => IF OmegaTimesT
       THEN ~Raised /\ Res.cls = TimeOperand.cls
       ELSE Raised /\ NamesBoth

\* C3 (amended): * and / of two values of different domains (s, t, f,
\* omega, phasor) raise an error naming both operand classes, except that an
\* omega-domain and a t-domain value multiply and divide in either order to
\* a value of the t operand's class, and a phasor on the left multiplies
\* and divides with an omega-domain value on the right to a value of the
\* phasor's class.
C3_CrossDomainProduct ==
    (BinaryDone(MulOps) /\ CrossDomain({"s", "t", "f", "omega", "phasor"}))
    => IF OmegaTimesT
       THEN ~Raised /\ Res.cls = TimeOperand.cls
       ELSE IF DomainOf(OpA.cls) = "phasor" /\ DomainOf(OpB.cls) = "omega"
       THEN ~Raised /\ Res.cls = OpA.cls
       ELSE last.err \in {"CannotCombine", "Incompatible"} /\ NamesBoth /\ Res = NoVal

\* An s-domain value has been multiplied by a t-domain value: the call
\* raised and its message names both classes.
C3_ProductRaised ==
    /\ BinaryDone({"*"})
    /\ DomainOf(OpA.cls) = "s" /\ IsExpr(OpB) /\ DomainOf(OpB.cls) = "t"
    /\ last.err = "CannotCombine" /\ NamesBoth

(***************************************************************************)
(* C4                                                                      *)
(***************************************************************************)
\* C4: + and - of two values of different domains (s, t, f, omega, phasor)
\* raise; a sum or difference is returned only when the operands share a
\* domain or one of them is a plain number or an untyped or constant value.
C4_CrossDomainSumRaises ==
    /\ (BinaryDone(AddOps) /\ CrossDomain({"s", "t", "f", "omega", "phasor"}))
       => Raised /\ Res = NoVal
    /\ (BinaryDone(AddOps) /\ ~Raised)
       => \/ ~IsExpr(OpB)
          \/ DomainOf(OpA.cls) = DomainOf(OpB.cls)
          \/ DomainOf(OpA.cls) \in {"none", "const"}
          \/ DomainOf(OpB.cls) \in {"none", "const"}

\* An f-domain value has been added to an omega-domain value, and the
\* call raised.
C4_SumRaised ==
    /\ BinaryDone({"+"})
    /\ DomainOf(OpA.cls) = "f" /\ IsExpr(OpB) /\ DomainOf(OpB.cls) = "omega"
    /\ last.err = "CannotCombine" /\ Res = NoVal

(***************************************************************************)
(* C5                                                                      *)
(***************************************************************************)
\* v is a plain number, an Expr or a cExpr.
Untyped(v) ==
    ~IsExpr(v) \/ v.cls \in {"Expr", "cExpr"}

\* One operand is untyped and the other has a role.
UntypedWithTyped ==
    \/ Untyped(OpA) /\ RoleOf(OpB.cls) # "none"
    \/ Untyped(OpB) /\ RoleOf(OpA.cls) # "none"

Typed ==
    IF RoleOf(OpA.cls) # "none" THEN OpA ELSE OpB

\* C5 as stated: + and - of a role-typed value with an Expr, a cExpr or a
\* plain number, on either side, return a value of the role-typed class.
C5_UntypedAdoptsRole ==
    (BinaryDone(AddOps) /\ UntypedWithTyped)
    => ~Raised /\ Res.cls = Typed.cls

\* C5 (amended): + and - of a role-typed value with an Expr, a cExpr or a
\* plain number return a value of the role-typed class, or raise the
\* constructor's error when the operands hold a symbol that class rejects;
\* but a role-typed phasor on the left accepts only the int 0 and raises a
\* TypeError for every other number and for an Expr or cExpr on the right.
C5_UntypedAdoptsRoleUnlessPhasor ==
    (BinaryDone(AddOps) /\ UntypedWithTyped)
    => IF DomainOf(OpA.cls) = "phasor" /\ ~(OpB.cls = "int" /\ OpB.p.zero)
       THEN last.err = "Incompatible" /\ Res = NoVal
       ELSE \/ ~Raised /\ Res.cls = Typed.cls
            \/ /\ last.err = "CannotDependOn"
               /\ Forbidden(Typed.cls) \cap (OpA.p.fv \cup OpB.p.fv) # {}

\* An Expr has been added to a Vs on its right, and the sum is a Vs.
C5_ExprPlusTyped ==
    /\ BinaryDone({"+"})
    /\ OpA.cls = "Expr" /\ OpB.cls = "Vs"
    /\ ~Raised /\ Res.cls = "Vs"

(***************************************************************************)
(* C6                                                                      *)
(***************************************************************************)
\* The dictionaries of the operands before the call, and of the result.
PreA == last.pre[OpA.aid]
PreB == last.pre[OpB.aid]
ResDict == dicts[Res.aid]

AllDomains == {"s", "t", "f", "omega", "const", "phasor"}

\* C6 as stated: the sum or difference of two values of one domain is
\* causal if either operand is; otherwise it has the dc / ac assumption
\* the operands agree on; otherwise it asserts none of dc, ac, causal.
C6_SumAssumptionsAsStated ==
    (BinaryDone(AddOps) /\ SameDomain(AllDomains) /\ ~Raised)
    => IF Asserts(PreA, "causal") \/ Asserts(PreB, "causal")
       THEN Asserts(ResDict, "causal")
       ELSE IF \E k \in {"dc", "ac"} : Asserts(PreA, k) /\ Asserts(PreB, k)
       THEN \A k \in {"dc", "ac"} : (Asserts(PreA, k) /\ Asserts(PreB, k)) => Asserts(ResDict, k)
       ELSE \A k \in Keys : ~Asserts(ResDict, k)

\* What a sum keeps of its operands' assumptions.
SumKeeps ==
    IF DomainOf(OpA.cls) = "s" /\ PreA = PreB THEN PreA ELSE EmptyDict

\* C6 (amended): the sum or difference of two values of one domain has,
\* for dc, ac and causal, the entries of the left operand's assumptions
\* when both are s-domain values with equal assumption dictionaries, and
\* none otherwise; on top of that causal is asserted when the result is 0.
C6_SumAssumptions ==
    (BinaryDone(AddOps) /\ SameDomain(AllDomains) /\ ~Raised)
    => \A k \in Keys :
         IF k = "causal" /\ Res.p.zero THEN Asserts(ResDict, k)
         ELSE /\ Has(ResDict, k) <=> Has(SumKeeps, k)
              /\ Has(ResDict, k) => ResDict[k] = SumKeeps[k]

\* Two s-domain values both built with dc=True have been added to a
\* nonzero sum, which asserts dc.
C6_EqualAssumptionsKept ==
    /\ BinaryDone({"+"}) /\ SameDomain({"s"}) /\ ~Raised
    /\ Asserts(PreA, "dc") /\ Asserts(PreB, "dc")
    /\ ~Res.p.zero /\ Asserts(ResDict, "dc")

(***************************************************************************)
(* C7                                                                      *)
(***************************************************************************)
\* C7: a comparison of two values that __compat_add__ rejects raises that
\* same error and answers nothing (values of two different domains among
\* s, t, f, omega are such a pair); and x == None is False and x != None
\* is True, without raising.
C7_ComparisonsCoerce ==
    /\ BinaryDone(CmpOps)
       => LET c == CompatAdd(OpA, OpB, last.pre)
          IN  /\ c.err # "none" => last.err = c.err /\ last.res = "-"
              /\ ~Raised => last.res \in {"True", "False", "rel"}
    /\ (BinaryDone(CmpOps) /\ CrossDomain({"s", "t", "f", "omega"}))
       => last.err = "CannotCombine"
    /\ (last.op \in CmpOps /\ last.r = "None")
       => /\ ~Raised
          /\ last.op = "==" => last.res = "False"
          /\ last.op = "!=" => last.res = "True"

\* A Vs has been compared with an Is by ==, and the call raised.
C7_ComparisonRaised ==
    /\ BinaryDone({"=="})
    /\ OpA.cls = "Vs" /\ OpB.cls = "Is"
    /\ last.err = "CannotCombine" /\ last.res = "-"

(***************************************************************************)
(* C8                                                                      *)
(***************************************************************************)
\* The variables of all the domains.
DomainSyms == Syms \cup {"n", "k", "z"}

\* C8 as stated: no value of a domain class (s, t, f, omega, constant,
\* FourierDomainExpression, DiscreteTimeDomainExpression) holds the
\* variable of another domain.
C8_NoForeignVariable ==
    /\ \A g \in Regs :
         (IsExpr(vals[g]) /\ DomainOf(vals[g].cls) \in {"s", "t", "f", "omega", "const"})
         => vals[g].p.fv \subseteq {VarOf(vals[g].cls)}
    /\ OpA.cls = "FourierDomainExpression" => OpA.p.fv \cap DomainSyms \subseteq {"f"}
    /\ OpA.cls = "DiscreteTimeDomainExpression" => OpA.p.fv \cap DomainSyms \subseteq {"n"}

\* C8 (amended): each constructor rejects a fixed list of variables, not
\* every foreign one.  No s-domain value holds t; no t-domain value holds
\* s; no f-domain or omega-domain value holds s or t; no constant holds s,
\* t, f or omega; a FourierDomainExpression holds s or t, and a
\* DiscreteTimeDomainExpression z or k, only if it was built with
\* check=False or its payload has an unevaluated Integral (Sum).
C8_RejectedVariables ==
    /\ \A g \in Regs :
         IsExpr(vals[g]) =>
           LET d == DomainOf(vals[g].cls)
               fv == vals[g].p.fv
           IN  /\ d = "s" => "t" \notin fv
               /\ d = "t" => "s" \notin fv
               /\ d \in {"f", "omega"} => fv \cap {"s", "t"} = {}
               /\ d = "const" => fv \cap Syms = {}
    /\ (OpA.cls = "FourierDomainExpression" /\ OpA.p.fv \cap {"s", "t"} # {})
       => last.res = "nocheck" \/ "Integral" \in OpA.p.fv
    /\ (OpA.cls = "DiscreteTimeDomainExpression" /\ OpA.p.fv \cap {"z", "k"} # {})
       => last.res = "nocheck" \/ "Sum" \in OpA.p.fv

\* The construction of an sExpr has just been refused.
C8_ConstructionRefused ==
    /\ last.op = "new" /\ last.r = "sExpr"
    /\ last.err = "CannotDependOn"
    /\ OpA = NoVal

(***************************************************************************)
(* C9                                                                      *)
(***************************************************************************)
\* C9 (the consequence it names): no step changes what is_causal answers
\* for a value that exists before and after it.
C9_CausalAnswerStable ==
    [][\A g \in Regs :
         (IsExpr(vals[g]) /\ IsExpr(vals'[g]))
         => QueryR(vals[g], "causal", dicts) = QueryR(vals'[g], "causal", dicts')]_vars

(***************************************************************************)
(* C10                                                                     *)
(***************************************************************************)
\* C10: no value asserts more than one of dc, ac and causal.
C10_AtMostOneAsserted ==
    \A g \in Regs :
      IsExpr(vals[g]) =>
        Cardinality({k \in Keys : Asserts(dicts[vals[g].aid], k)}) <= 1

\* An s-domain value built from 0 with dc=True asserts dc and causal.
C10_ZeroDcIsCausalToo ==
    /\ last.op = "new" /\ last.l = "a" /\ DomainOf(OpA.cls) = "s" /\ OpA.p.zero
    /\ Asserts(dicts[OpA.aid], "dc") /\ Asserts(dicts[OpA.aid], "causal")

(***************************************************************************)
(* C11                                                                     *)
(***************************************************************************)
\* The last call was the transform kind (one of kinds) of a.
TransformDone(kinds) ==
    last.op \in kinds /\ last.l = "a"

\* The transforms the claim lists, by method and source domain, with the
\* domain each is to arrive in.
ListedTransforms ==
    {<<"laplace", "t", "s">>, <<"inverse_laplace", "s", "t">>, <<"time", "s", "t">>,
     <<"fourier", "t", "f">>, <<"inverse_fourier", "f", "t">>,
     <<"inverse_fourier", "omega", "t">>, <<"time", "omega", "t">>,
     <<"jomega", "s", "omega">>, <<"frequency_response", "s", "f">>,
     <<"phasor", "t", "phasor">>, <<"time", "phasor", "t">>}

\* Noise spectra are left out: they have no time representation.
Listed ==
    /\ ~IsSubclass(OpA.cls, "noiseExpr")
    /\ \E q \in ListedTransforms : q[1] = last.op /\ q[2] = DomainOf(OpA.cls)

TargetDomain ==
    (CHOOSE q \in ListedTransforms : q[1] = last.op /\ q[2] = DomainOf(OpA.cls))[3]

\* C11: a domain transform (time to Laplace and back, time to Fourier and
\* back, omega to time, s to f and to omega by substitution, time to phasor
\* and phasor to time) that returns gives a value of the target domain
\* with the role of its source; and a role-typed value that has been taken
\* to another domain and back to its own has its original class.
C11_TransformKeepsRole ==
    /\ (TransformDone(TransformKinds) /\ Listed /\ ~Raised)
       => /\ IsExpr(Res)
          /\ DomainOf(Res.cls) = TargetDomain
          /\ RoleOf(Res.cls) = RoleOf(OpA.cls)
    /\ (/\ last.op \in TransformKinds /\ last.l = "r" /\ ~Raised
        /\ RoleOf(OpA.cls) # "none" /\ IsExpr(Res)
        /\ DomainOf(Res.cls) = DomainOf(OpA.cls))
       => Res.cls = OpA.cls

\* A time-domain voltage that is a sinusoid has been converted to a
\* phasor, and the phasor is a plain Phasor.
C11_PhasorLosesRole ==
    /\ TransformDone({"phasor"})
    /\ OpA.cls = "Vt" /\ ~Raised
    /\ Res.cls = "Phasor"

(***************************************************************************)
(* C12                                                                     *)
(***************************************************************************)
\* C12: phasor() of a time-domain value returns a phasor exactly when the
\* signal is a single sinusoid; for every other signal it raises the
\* conversion error and there is no result.
C12_PhasorOnlyOfSinusoid ==
    (TransformDone({"phasor"}) /\ DomainOf(OpA.cls) = "t")
    => IF AcdcIsAc(OpA.p)
       THEN ~Raised /\ DomainOf(Res.cls) = "phasor"
       ELSE last.err = "CannotConvert" /\ Res = NoVal

\* A causal time-domain voltage has been asked for its phasor, and the
\* call raised.
C12_ConversionRefused ==
    /\ TransformDone({"phasor"})
    /\ OpA.cls = "Vt" /\ OpA.p.sig = "causal"
    /\ last.err = "CannotConvert" /\ Res = NoVal

(***************************************************************************)
(* C13                                                                     *)
(***************************************************************************)
\* C13: the Laplace transform of a time-domain value asserts dc exactly
\* when the signal is dc, ac exactly when it is not dc and is a single
\* sinusoid, causal exactly when it is neither and is causal; the keys
\* it does not assert are False.
C13_LaplaceAssumptions ==
    (TransformDone({"laplace"}) /\ DomainOf(OpA.cls) = "t" /\ ~Raised)
    => /\ \A k \in Keys : Has(ResDict, k) /\ ResDict[k] \in {"True", "False"}
       /\ Asserts(ResDict, "dc") <=> AcdcIsDc(OpA.p)
       /\ Asserts(ResDict, "ac") <=> (~AcdcIsDc(OpA.p) /\ AcdcIsAc(OpA.p))
       /\ Asserts(ResDict, "causal")
             <=> (~AcdcIsDc(OpA.p) /\ ~AcdcIsAc(OpA.p) /\ AcdcIsCausal(OpA.p))

\* The Laplace transform of the time-domain value 0 asserts dc and causal.
C13_ZeroSignalDcAndCausal ==
    /\ TransformDone({"laplace"}) /\ DomainOf(OpA.cls) = "t" /\ ~Raised
    /\ OpA.p.zero
    /\ Asserts(ResDict, "dc") /\ Asserts(ResDict, "causal")

(***************************************************************************)
(* Superposition.add                                                       *)
(***************************************************************************)
\* The last call on the superposition was add of an argument of type t.
AddOf(t) ==
    scall.op = "add" /\ scall.arg.type = t

\* The argument of add is zero: the number 0, or a typed value whose
\* payload is 0.
ZeroArg(arg) ==
    \/ arg.type = "int" /\ arg.re = 0
    \/ arg.type = "val" /\ arg.c.re = 0 /\ arg.c.im = 0
    \/ arg.type = "sig" /\ arg.x.dc = 0 /\ arg.x.tr = 0 /\ DOMAIN arg.x.ac = {}

\* C14: add of a zero value (the number 0 or a typed value whose payload is
\* 0) returns without raising and leaves the keys and every stored value
\* of the superposition as they were before the call.
C14_AddZeroIsNoOp ==
    (scall.op = "add" /\ ZeroArg(scall.arg)) => (scall.err = "none" /\ sup = scall.pre)

\* A typed zero value has been added to a superposition that holds
\* components.
C14_ZeroAddedToComponents ==
    /\ AddOf("val")
    /\ ZeroArg(scall.arg)
    /\ scall.pre # EmptyDict
    /\ sup = scall.pre

\* The last call was add of a nonzero phasor.
PhasorAdd ==
    /\ AddOf("val")
    /\ IsSubclass(scall.arg.c.cls, "Phasor")
    /\ ~ZeroArg(scall.arg)

\* The angular frequency of the value that was added.
AddedOmega ==
    IF Has(scall.arg.c.d, "omega") THEN scall.arg.c.d["omega"] ELSE "omega"

\* C15: add of a phasor returns without raising; afterwards the keys are
\* those from before the call and the angular frequency of the phasor,
\* never 'ac'; a phasor at a frequency that was a key is summed into that
\* entry, a phasor at a new frequency is the entry under the new key, and
\* every other entry is as it was.
C15_OneKeyPerFrequency ==
    PhasorAdd =>
        /\ scall.err = "none"
        /\ DOMAIN sup = DOMAIN scall.pre \cup {AddedOmega}
        /\ "ac" \notin DOMAIN sup
        /\ \A k \in DOMAIN scall.pre \ {AddedOmega} : sup[k] = scall.pre[k]
        /\ IF AddedOmega \in DOMAIN scall.pre
           THEN /\ sup[AddedOmega].re = scall.pre[AddedOmega].re + scall.arg.c.re
                /\ sup[AddedOmega].im = scall.pre[AddedOmega].im + scall.arg.c.im
           ELSE sup[AddedOmega] = scall.arg.c

\* add of a phasor at a numeric frequency that is a key already has raised
\* 'Cannot combine'.
C15_SameFrequencyRefused ==
    /\ PhasorAdd
    /\ AddedOmega \in OmegaNames
    /\ AddedOmega \in DOMAIN scall.pre
    /\ scall.err = "CannotCombine"
    /\ sup = scall.pre

\* The last call was add of a noise value of the noise class of the
\* superposition.
NoiseAdd ==
    /\ AddOf("val")
    /\ scall.arg.c.cls = TransformDomains[vals["a"].cls]["n"]

\* The last call was add of a nonzero value that is not noise, and it
\* returned.
PlainAdd ==
    /\ AddOf("val")
    /\ ~IsSubclass(scall.arg.c.cls, "noiseExpr")
    /\ ~ZeroArg(scall.arg)
    /\ scall.err = "none"

\* The square of the magnitude of a component.
MagSq(c) ==
    IF c.root THEN c.re ELSE c.re * c.re

\* The amount under key k before the call (0 without the key).
Before(k, f) ==
    IF k \notin DOMAIN scall.pre THEN 0
    ELSE IF f = "sq" THEN MagSq(scall.pre[k])
    ELSE IF f = "re" THEN scall.pre[k].re
    ELSE scall.pre[k].im

\* C16: add of a noise value of magnitude m leaves one 'n' entry whose
\* square is the square of the entry before the call plus m^2, so that two
\* noise values m1 and m2 give sqrt(m1^2 + m2^2) in either order, and it
\* leaves the other entries alone; add of any other value adds its amount
\* to the amount of one entry and leaves the other entries alone.
C16_NoisePowerSum ==
    /\ NoiseAdd =>
         /\ scall.err = "none"
         /\ DOMAIN sup = DOMAIN scall.pre \cup {"n"}
         /\ MagSq(sup["n"]) = Before("n", "sq") + scall.arg.c.re * scall.arg.c.re
         /\ \A k \in DOMAIN scall.pre \ {"n"} : sup[k] = scall.pre[k]
    /\ PlainAdd =>
         \E k \in DOMAIN sup \ {"n"} :
            /\ sup[k].re = Before(k, "re") + scall.arg.c.re
            /\ sup[k].im = Before(k, "im") + scall.arg.c.im
            /\ ~sup[k].root
            /\ DOMAIN sup = DOMAIN scall.pre \cup {k}
            /\ \A q \in DOMAIN scall.pre \ {k} : sup[q] = scall.pre[q]

\* Noise of magnitudes 1 and 2 has been added: the entry is sqrt(5), and
\* m1 + m2 would be 3.
C16_NoiseOneAndTwo ==
    /\ NoiseAdd
    /\ "n" \in DOMAIN scall.pre
    /\ MagSq(scall.pre["n"]) + scall.arg.c.re * scall.arg.c.re = 5
    /\ sup["n"].root
    /\ sup["n"].re = 5

\* The last call was add of the time signal dc + one sinusoid + a causal
\* transient to an empty superposition.
BuiltFromSignal ==
    /\ AddOf("sig")
    /\ scall.pre = EmptyDict
    /\ scall.arg.x.dc # 0
    /\ DOMAIN scall.arg.x.ac # {}
    /\ scall.arg.x.tr # 0

\* The superposition holds the parts of signal x: the dc term under 'dc',
\* the sinusoid a cos(w t) + b sin(w t) as the phasor a - j b under w,
\* and the Laplace transform of the transient under 's'.
StoresSignal(x) ==
    /\ DOMAIN sup = {"dc", "s"} \cup DOMAIN x.ac
    /\ IsSubclass(sup["dc"].cls, "cExpr") /\ sup["dc"].re = x.dc
    /\ IsSubclass(sup["s"].cls, "sExpr") /\ sup["s"].re = x.tr
    /\ \A w \in DOMAIN x.ac :
          /\ IsSubclass(sup[w].cls, "Phasor")
          /\ Has(sup[w].d, "omega") /\ sup[w].d["omega"] = w
          /\ sup[w].re = x.ac[w][1]
          /\ sup[w].im = 0 - x.ac[w][2]

\* Signals y and x are equal as functions of t.
SameSignal(y, x) ==
    /\ y.dc = x.dc
    /\ y.ac = x.ac
    /\ y.tr = x.tr
    /\ y.half = x.half

\* C17: a superposition built from x = dc + one sinusoid + a causal
\* transient stores the dc term under 'dc', the sinusoid as a phasor under
\* its angular frequency and the Laplace transform of the rest under 's',
\* and time() of it returns a signal equal to x.
C17_DecomposeRoundTrip ==
    [][BuiltFromSignal =>
          /\ scall.err = "none"
          /\ StoresSignal(scall.arg.x)
          /\ scall'.op = "time" =>
                (scall'.err = "none" /\ SameSignal(out'.x, scall.arg.x))]_vars

\* time() has returned - sin(w t) for the stored phasor of sin(w t).
C17_SineComesBackNegated ==
    /\ scall.op = "time"
    /\ scall.err = "none"
    /\ \E w \in OmegaNames :
          /\ w \in DOMAIN sup
          /\ sup[w].re = 0 /\ sup[w].im = -1
          /\ out.x.ac[w] = <<0, -1>>

\* A class add can file: constants, s-domain values, angular-frequency
\* values (noise among them), phasors and time-domain values.
Classifiable(cls) ==
    \E b \in {"cExpr", "sExpr", "omegaExpr", "Phasor", "tExpr"} : IsSubclass(cls, b)

\* The last call was add of a nonzero value that has no kind: a value of
\* an unclassifiable class, or a string in f.
UnclassifiableAdd ==
    \/ AddOf("val") /\ ~ZeroArg(scall.arg) /\ ~Classifiable(scall.arg.c.cls)
    \/ AddOf("str") /\ scall.arg.syms = {"f"}

\* C18: add of a value that cannot be classified as dc, phasor, s or noise
\* (an f-domain value for one) raises 'Cannot handle value', and the keys
\* and values of the superposition are what they were before the call.
C18_UnclassifiableRaises ==
    UnclassifiableAdd => (scall.err = "CannotHandle" /\ sup = scall.pre)

\* An f-domain voltage has been refused by a superposition that holds
\* components.
C18_FDomainRefused ==
    /\ AddOf("val")
    /\ scall.arg.c.cls = "Vf"
    /\ scall.arg.c.re # 0
    /\ scall.pre # EmptyDict
    /\ scall.err = "CannotHandle"

(***************************************************************************)
(* Superposition arithmetic                                                *)
(***************************************************************************)
\* The last call multiplied the superposition by an immittance of the
\* class its role asks for (a voltage by an admittance, a current by an
\* impedance), or divided it by one of the other class.
ByImmittance ==
    \/ /\ scall.op = "mul" /\ scall.arg.type = "val"
       /\ scall.arg.cls = (IF vals["a"].cls = "Vsuper" THEN "Ys" ELSE "Zs")
    \/ /\ scall.op = "div" /\ scall.arg.type = "val"
       /\ scall.arg.cls = (IF vals["a"].cls = "Vsuper" THEN "Zs" ELSE "Ys")

\* The value at s = 0 of the immittance the components were multiplied by.
FactorAtZero ==
    IF scall.op = "mul" THEN scall.arg.n0 ELSE scall.arg.d0

\* C19: a voltage superposition times an admittance, or divided by an
\* impedance, returns a current superposition with the same keys in which
\* every component is current-typed: the dc component times the admittance
\* at zero frequency, each phasor times the admittance at the frequency of
\* the phasor, the 's' component times the admittance itself; and the same
\* with voltage and current, admittance and impedance exchanged.
C19_ProductChangesRole ==
    ByImmittance =>
        /\ scall.err = "none"
        /\ out.cls = (IF vals["a"].cls = "Vsuper" THEN "Isuper" ELSE "Vsuper")
        /\ DOMAIN out.S = DOMAIN scall.pre
        /\ \A k \in DOMAIN out.S :
              /\ RoleOf(out.S[k].cls) = (IF vals["a"].cls = "Vsuper" THEN "I" ELSE "V")
              /\ out.S[k].at = (IF k = "dc" THEN "0" ELSE k)
              /\ out.S[k].re = scall.pre[k].re * (IF k = "dc" THEN FactorAtZero ELSE 1)
              /\ out.S[k].im = scall.pre[k].im

\* The product of a voltage superposition and an admittance holds a
\* voltage phasor.
C19_VoltagePhasorInCurrent ==
    /\ ByImmittance
    /\ vals["a"].cls = "Vsuper"
    /\ scall.err = "none"
    /\ out.cls = "Isuper"
    /\ \E k \in DOMAIN out.S : out.S[k].cls = "Vphasor" /\ scall.pre[k].cls = "Vphasor"

\* The last call scaled the superposition by the plain number Factor: it
\* multiplied it by the number, or divided it by 1 or -1.
Scaled ==
    /\ scall.op \in {"mul", "div"}
    /\ scall.arg.type = "int"
    /\ scall.op = "div" => scall.arg.re # 0

Factor ==
    scall.arg.re

\* C20: negation and scaling return a new container of the class of the
\* original with the keys of the original; negation negates every value
\* but the one under 'n', which it keeps; scaling multiplies every value by
\* the factor; the original holds what it held before the call.
C20_NegateAndScale ==
    /\ scall.op = "neg" =>
         /\ scall.err = "none" /\ sup = scall.pre
         /\ out.cls = vals["a"].cls
         /\ DOMAIN out.S = DOMAIN sup
         /\ \A k \in DOMAIN sup :
               /\ out.S[k].cls = sup[k].cls
               /\ k = "n" => out.S[k] = sup[k]
               /\ k # "n" => out.S[k].re = 0 - sup[k].re /\ out.S[k].im = 0 - sup[k].im
    /\ Scaled =>
         /\ scall.err = "none" /\ sup = scall.pre
         /\ out.cls = vals["a"].cls
         /\ DOMAIN out.S = DOMAIN sup
         /\ \A k \in DOMAIN sup :
               /\ out.S[k].cls = sup[k].cls
               /\ out.S[k].im = sup[k].im * Factor
               /\ out.S[k].root = sup[k].root
               /\ ~sup[k].root => out.S[k].re = sup[k].re * Factor
               /\ sup[k].root =>
                     out.S[k].re = sup[k].re * Factor * (IF Factor < 0 THEN 0 - Factor ELSE Factor)

\* A superposition with noise and another component has been negated.
C20_NegatedWithNoise ==
    /\ scall.op = "neg"
    /\ "n" \in DOMAIN sup
    /\ out.S["n"] = sup["n"]
    /\ \E k \in DOMAIN sup \ {"n"} : sup[k].re # 0 /\ out.S[k].re = 0 - sup[k].re

(***************************************************************************)
(* Contexts                                                                *)
(***************************************************************************)
\* The last call was c.restore(), it answered the last open c.switch(),
\* and it returned.
Exited ==
    /\ ccall.op = "restore"
    /\ ccall.closed # NoFrame
    /\ ccall.err = "none"

\* C21: after c.switch() and the c.restore() that answers it, the current
\* context is the context that was current just before c.switch().
C21_RestoreReinstatesContext ==
    Exited => context = ccall.closed.was

\* An inner context of two has been left, and it is still the current one.
C21_InnerContextStaysCurrent ==
    /\ Exited
    /\ ccall.open # <<>>
    /\ ccall.closed.was # ccall.closed.c
    /\ context = ccall.closed.c

\* C22: after c.switch(), changes of the assumptions and the c.restore()
\* that answers the switch, the global assumptions are those in effect
\* just before c.switch().
C22_RestoreReinstatesAssumptions ==
    Exited => global_assumptions = ccall.closed.ga

\* A fact was assumed before the switch, and is gone after the restore.
C22_ParentAssumptionLost ==
    /\ Exited
    /\ ccall.closed.ga # {}
    /\ global_assumptions = {}

\* The context new() made last.
Newest ==
    Cardinality(DOMAIN contexts) - 1

\* The last call was c.restore() and answered the last open c.switch().
Left ==
    /\ ccall.op = "restore"
    /\ ccall.closed # NoFrame

\* C23: a context made with new() has the symbols and the assumptions of
\* its parent; binding a symbol in the current context changes no other
\* context; the restore() of a context saves the assumptions in effect
\* into that context and changes the assumptions of no other context.
C23_ChildIsolated ==
    /\ ccall.op = "new" =>
          /\ contexts[Newest].symbols = contexts[ccall.c].symbols
          /\ contexts[Newest].assumptions = contexts[ccall.c].assumptions
    /\ ccall.op = "symbol" =>
          \A k \in DOMAIN contexts \ {ccall.c} : contexts[k] = ccall.pre[k]
    /\ Left =>
          /\ ccall.ga \subseteq DOMAIN contexts[ccall.c].assumptions
          /\ \A k \in DOMAIN contexts \ {ccall.c} :
                contexts[k].assumptions = ccall.pre[k].assumptions

\* A fact was assumed while the child was current; restore() raised and
\* the child has not got it.
C23_AssumptionNotSaved ==
    /\ Left
    /\ ccall.err = "TypeError"
    /\ ccall.closed.was # ccall.c
    /\ ccall.ga # {}
    /\ contexts[ccall.c].assumptions = EmptyDict

(***************************************************************************)
(* Numerical evaluation                                                    *)
(***************************************************************************)
\* The symbols of the payload of a other than the domain variable of a.
OtherSymbols ==
    vals["a"].p.fv \ {VarOf(vals["a"].cls)}

\* C24: evaluate raises when the payload holds a symbol other than the
\* domain variable of the value; without such symbols, evaluate() with no
\* argument raises when the payload depends on the domain variable and
\* returns the number otherwise.
C24_EvaluateChecksSymbols ==
    last.op = "evaluate" =>
        /\ OtherSymbols # {} => last.err # "none"
        /\ (OtherSymbols = {} /\ last.r = "noarg") =>
              IF VarOf(vals["a"].cls) \in vals["a"].p.fv THEN last.err = "NeedValue"
              ELSE last.err = "none" /\ last.res = "number"

\* evaluate() of a constant of a class without a domain variable raised.
C24_ConstantCannotBeEvaluated ==
    /\ last.op = "evaluate"
    /\ last.r = "noarg"
    /\ IsSubclass(vals["a"].cls, "cExpr")
    /\ vals["a"].p = POne
    /\ last.err = "AttributeError"

(***************************************************************************)
(* The discrete-time Fourier transform                                     *)
(***************************************************************************)
\* The value a is known to be causal for the call: the call says so, or
\* the call says nothing of dc, ac and causal and the payload is causal.
KnownCausal ==
    \/ Asserts(last.r, "causal")
    \/ /\ vals["a"].p.sig = "causal"
       /\ \A k \in {"dc", "ac", "causal"} : k \notin DOMAIN last.r

C25_SummationForNonCausal ==
    /\ last.op = "dtft"
    /\ vals["a"].p.sig = "causal"
    /\ Has(last.r, "causal") /\ ~Asserts(last.r, "causal")
    /\ last.res = "summation"

(***************************************************************************)
(* Products of s-domain values                                             *)
(***************************************************************************)
\* The last call multiplied or divided two s-domain values and returned.
SProduct ==
    /\ BinaryDone(MulOps)
    /\ IsExpr(OpB)
    /\ IsSubclass(OpA.cls, "sExpr") /\ IsSubclass(OpB.cls, "sExpr")
    /\ ~Raised

\* What the product of two values with assumptions d and e asserts.
ProductCarries(d, e) ==
    IF Asserts(d, "causal") \/ Asserts(e, "causal") THEN {"causal"}
    ELSE IF Asserts(d, "dc") /\ Asserts(e, "dc") THEN {"dc"}
    ELSE IF \/ Asserts(d, "ac") /\ Asserts(e, "ac")
            \/ Asserts(d, "ac") /\ Asserts(e, "dc")
            \/ Asserts(d, "dc") /\ Asserts(e, "ac") THEN {"ac"}
    ELSE {}

\* C26: the product or quotient of two s-domain values asserts causal if
\* either operand does; otherwise dc if both assert dc; otherwise ac if
\* both assert ac or one asserts ac and the other dc; otherwise none of
\* the three.
C26_ProductAssumptions ==
    SProduct => {k \in Keys : Asserts(ResDict, k)} = ProductCarries(PreA, PreB)

\* The product of two values built with dc=True alone does not assert dc.
C26_DcProductLosesDc ==
    /\ SProduct
    /\ PreA = Put(EmptyDict, "dc", "True")
    /\ PreB = Put(EmptyDict, "dc", "True")
    /\ ~Asserts(ResDict, "dc")

(***************************************************************************)
(* Invariants of the stored components                                     *)
(***************************************************************************)
\* The containers there are: the superposition itself and, after -a,
\* a + x and a - x, the container returned.
Containers ==
    {sup} \cup (IF scall.op \in {"neg", "plus", "minus"} /\ scall.err = "none"
                THEN {out.S} ELSE {})

\* C27: no container holds a value that is zero.
C27_NoZeroComponent ==
    \A S \in Containers : \A k \in DOMAIN S : ~CompZero(S[k])

\* A phasor and then its negative have been added at one frequency, and
\* the key is still there, with a zero value.
C27_CancelledPhasorStays ==
    /\ scall.op = "add"
    /\ scall.err = "none"
    /\ scall.arg.type = "val"
    /\ IsSubclass(scall.arg.c.cls, "Phasor")
    /\ \E k \in DOMAIN sup \cap DOMAIN scall.pre :
          /\ k = CompOmega(scall.arg.c)
          /\ scall.pre[k].re = 0 - scall.arg.c.re
          /\ CompZero(sup[k])

\* C28: a phasor stored under a frequency key has that frequency as its
\* omega.
C28_PhasorOmegaIsKey ==
    \A k \in AcKeys(sup) : IsSubclass(sup[k].cls, "Phasor") => CompOmega(sup[k]) = k

\* A second phasor has been merged into the one under a frequency, and
\* the entry has the symbol omega as its frequency; time() gives no
\* sinusoid at the key's frequency.
C28_MergedPhasorLosesOmega ==
    /\ scall.op = "add"
    /\ scall.err = "none"
    /\ \E k \in OmegaNames \cap DOMAIN sup \cap DOMAIN scall.pre :
          /\ CompOmega(scall.pre[k]) = k
          /\ ~CompZero(sup[k])
          /\ CompOmega(sup[k]) = "omega"
          /\ k \notin DOMAIN TimeAc(sup)

\* The class a superposition of class scls is to hold under key k.
StoredClass(scls, k) ==
    TransformDomains[scls][IF k \in {"dc", "s", "n"} THEN k ELSE "ac"]

\* C29: every value of a Vsuper is of the voltage class of its key, and
\* every value of an Isuper of the current class of its key.
C29_StoredValuesKeepRole ==
    vals["a"].cls \in SuperClasses =>
        \A k \in DOMAIN sup : IsSubclass(sup[k].cls, StoredClass(vals["a"].cls, k))

\* A voltage superposition holds a current phasor that was added to it.
C29_CurrentPhasorInVoltage ==
    /\ vals["a"].cls = "Vsuper"
    /\ scall.op = "add"
    /\ scall.arg.type = "val"
    /\ scall.arg.c.cls = "Iphasor"
    /\ \E k \in DOMAIN sup : sup[k].cls = "Iphasor"

\* C30: an add that raises leaves the keys and values as they were.
C30_AddAllOrNothing ==
    (scall.op = "add" /\ scall.err # "none") => sup = scall.pre

\* The add of a time signal raised at its sinusoid, and the dc part of the
\* signal is in the container.
C30_DcKeptAfterFailure ==
    /\ scall.op = "add"
    /\ scall.err # "none"
    /\ scall.arg.type = "sig"
    /\ "dc" \in DOMAIN sup
    /\ "dc" \notin DOMAIN scall.pre

====
